---------------------------- MODULE Spec2Model ----------------------------
(***************************************************************************)
(* A model of the aplane swap tooling:                                     *)
(*   - the Group Assembler of the Python SDK (assemble_group),             *)
(*   - the HTLC session tools (examples/htlc/tools.py) driven one tool at  *)
(*     a time by the orchestrator, against a ledger index that confirms    *)
(*     notes sent by the peer or by third parties,                         *)
(*   - the message channel, the two-leg group and the Exchange Store of    *)
(*     the generic atomic swap (examples/atomicswap).                      *)
(* Each part has its own specification over the shared variables:         *)
(* SpecAsm (assembler), Spec (HTLC session and its message channel),       *)
(* SpecFund (HTLC session that creates and funds its lock), SpecSwap       *)
(* (generic swap), SpecChannels (a session of either example), SpecLock    *)
(* (the two hash-lock accounts of one HTLC swap), SpecPoll (the polling    *)
(* tools), SpecNote (send_note of both examples), SpecStore (the Exchange  *)
(* Store), SpecTrade (building, verifying and submitting the group),       *)
(* SpecSign (one signing request of the SDK client), SpecTunnel (the       *)
(* client's SSH tunnel: its accept thread, its copy threads and stop())    *)
(* SpecOps (the operations that sign and submit, as the orchestrator runs  *)
(* them) and SpecClaim (an HTLC session of either role with its message    *)
(* channel, its lock and both claim tools).                                *)
(***************************************************************************)
EXTENDS Integers, Sequences, FiniteSets, TLC

VARIABLES
    signed_lists,   \* assemble_group: the argument, one list per signer
    merged,         \* assemble_group: the outcome of the call (or Pending)
    state,          \* the session's SwapState (state.py), a record
    file,           \* the persisted session document (save_state)
    round,          \* the ledger's last confirmed round
    index,          \* the ledger index: the confirmed note transactions
    pc,             \* the tool the orchestrator is inside of, or "idle"
    seen,           \* wait_for_message's local set `seen`
    ret,            \* the result of a tool call not yet handed to the driver
    keys,           \* the hash-lock keys the signer has generated
    transfers,      \* the transfers the ledger holds: fundings and close-outs
    boxes,          \* the boxes of the Exchange Store, one per (app, name)
    tunnel,         \* the client's _SSHTunnel and its threads, or NoTunnel
    _key_cache      \* the client's key cache: the KeyInfo it holds, by address

vars == <<signed_lists, merged, state, file, round, index, pc, seen, ret,
          keys, transfers, boxes, tunnel, _key_cache>>

sessionVars == <<state, file, round, index, pc, seen, ret, keys, transfers>>
\* what a session tool that neither assembles nor touches a box leaves alone
asmVars == <<signed_lists, merged, boxes, tunnel, _key_cache>>

-----------------------------------------------------------------------------
(* Bounds of the model.                                                    *)

MaxSigners == 2     \* assemble_group: at most this many signer lists
MaxGroup == 2       \* assemble_group: lists of at most this many slots

-----------------------------------------------------------------------------
(* Base64, as base64.b64encode / base64.b64decode compute it.  A byte is   *)
(* 0..255; an encoded string is a sequence of alphabet positions 0..63     *)
(* with 64 standing for the padding character '='.                         *)

Pad == 64

RECURSIVE b64encode(_)
b64encode(bs) ==
    IF Len(bs) = 0 THEN << >>
    ELSE IF Len(bs) = 1 THEN
        << bs[1] \div 4, (bs[1] % 4) * 16, Pad, Pad >>
    ELSE IF Len(bs) = 2 THEN
        << bs[1] \div 4, (bs[1] % 4) * 16 + bs[2] \div 16,
           (bs[2] % 16) * 4, Pad >>
    ELSE
        << bs[1] \div 4, (bs[1] % 4) * 16 + bs[2] \div 16,
           (bs[2] % 16) * 4 + bs[3] \div 64, bs[3] % 64 >>
        \o b64encode(SubSeq(bs, 4, Len(bs)))

RECURSIVE b64decode(_)
b64decode(s) ==
    IF Len(s) < 4 THEN << >>
    ELSE IF s[3] = Pad THEN
        << s[1] * 4 + s[2] \div 16 >>
    ELSE IF s[4] = Pad THEN
        << s[1] * 4 + s[2] \div 16, (s[2] % 16) * 16 + s[3] \div 4 >>
    ELSE
        << s[1] * 4 + s[2] \div 16, (s[2] % 16) * 16 + s[3] \div 4,
           (s[3] % 4) * 64 + s[4] >>
        \o b64decode(SubSeq(s, 5, Len(s)))

-----------------------------------------------------------------------------
(* The Group Assembler: assemble_group(signed_lists).                      *)
(* A raised ValueError is the record [ok |-> FALSE, error |-> kind]; the   *)
(* slot of a per-slot error is the 0-based index the message names.        *)

Raise(kind, slot) == [ok |-> FALSE, error |-> kind, slot |-> slot]

\* entries = [sl[idx] for sl in signed_lists if sl[idx]], in list order
RECURSIVE EntriesFrom(_, _, _)
EntriesFrom(lists, idx, k) ==
    IF k > Len(lists) THEN << >>
    ELSE (IF lists[k][idx] # << >> THEN << lists[k][idx] >> ELSE << >>)
         \o EntriesFrom(lists, idx, k + 1)

\* a merge that takes the first signer of a slot and looks no further
Entries_first(lists, idx) ==
    LET all == EntriesFrom(lists, idx, 1) IN
    IF Len(all) = 0 THEN all ELSE << all[1] >>

Entries(lists, idx) == EntriesFrom(lists, idx, 1)

\* a join that puts the last slot first
RECURSIVE JoinDecoded_reversed(_)
JoinDecoded_reversed(m) ==
    IF Len(m) = 0 THEN << >>
    ELSE JoinDecoded_reversed(Tail(m)) \o b64decode(Head(m))

\* b"".join(base64.b64decode(s) for s in merged)
RECURSIVE JoinDecoded(_)
JoinDecoded(m) ==
    IF Len(m) = 0 THEN << >>
    ELSE b64decode(Head(m)) \o JoinDecoded(Tail(m))

\* the loop `for idx in range(group_len)`: idx is 1-based here, `acc` is
\* the list `merged` built so far
RECURSIVE MergeLoop(_, _, _, _)
MergeLoop(lists, group_len, idx, acc) ==
    IF idx > group_len THEN
        [ok |-> TRUE, value |-> b64encode(JoinDecoded(acc))]
    ELSE
        LET entries == Entries(lists, idx) IN
        IF Len(entries) = 0 THEN Raise("no signer", idx - 1)
        ELSE IF Len(entries) > 1 THEN Raise("multiple signers", idx - 1)
        ELSE MergeLoop(lists, group_len, idx + 1, Append(acc, entries[1]))

MergeSlots(lists, group_len) == MergeLoop(lists, group_len, 1, << >>)

assemble_group(lists) ==
    IF Len(lists) = 0 THEN Raise("empty", -1)
    ELSE
        LET group_len == Len(lists[1]) IN
        IF \E i \in 1..Len(lists) : Len(lists[i]) # group_len
        THEN Raise("length", -1)
        ELSE MergeSlots(lists, group_len)

-----------------------------------------------------------------------------
(* The inputs of the assembler specification.                              *)

Pending == [ok |-> FALSE, error |-> "pending", slot |-> -1]

\* the signed transactions two parties can hold: the base64 of these bytes
SignedBytes == { <<1>>, <<200, 7>> }
SignedEntries == { b64encode(b) : b \in SignedBytes }
SlotEntries == { << >> } \cup SignedEntries

SeqsUpTo(S, n) == UNION { [1..k -> S] : k \in 0..n }

SignerLists == SeqsUpTo(SlotEntries, MaxGroup)
SignedListsInputs == SeqsUpTo(SignerLists, MaxSigners)


-----------------------------------------------------------------------------
(* The HTLC session (examples/htlc).  Addresses, hashes and lock addresses *)
(* are symbolic; asset ids and amounts are those of config.py.             *)

MaxRound == 2       \* the ledger advances to at most this round
MaxNotes == 2       \* at most this many note transactions are confirmed
MaxTimeout == 2     \* timeout rounds range over 0..MaxTimeout

ASA_A == 0                  \* what the buyer offers (ALGO)
ASA_B == 10458941           \* what the seller offers
ASA_A_AMOUNT == 1000000
ASA_B_AMOUNT == 1000000
FUND_ALGO_AMOUNT == 300000  \* SwapState.fund_algo_amount

Me == "ME"              \* state.my_address
Peer == "PEER"          \* state.peer_address
Mallory == "MALLORY"    \* any third party
Senders == {Peer, Mallory}

\* hashes as hex strings: two well-formed ones, one of the wrong length,
\* one of 64 characters that are not hex digits
Hashes == {"H1", "H2"}
HexLen64(h) == h \in Hashes \cup {"nothex"}
IsHex(h) == h \in Hashes \cup {"short"}

\* lock addresses: the one the signer hands out for this party's key, one
\* of another account, the one the peer advertises, and a string that is
\* no Algorand address
OwnLocks == {"L1"}
OtherLock == "LX"
PeerLock == "LP"
BadAddr == "bad"

\* _is_valid_address(addr)
_is_valid_address(addr) ==
    addr \in OwnLocks \cup {OtherLock, PeerLock, Me, Peer, Mallory}

\* _is_algo(asa_id)
_is_algo(asa_id) == asa_id = 0

\* The result of the tool call the orchestrator holds: a returned dict without
\* "error" (res "ok"), a returned {"error": ...} ("error") or an exception
\* leaving the tool ("raise").  what names the check that failed (or, on
\* success, the address or the note type returned); arg is the timeout
\* round the returned dict carries (in the note a wait returns, in the
\* message of a timeout error), 0 when it carries none.  NoRet: no result
\* is pending, the driver may call a tool.
NoRet == [op |-> "none", res |-> "none", what |-> "", arg |-> 0]
Ret(op, res, what, arg) == [op |-> op, res |-> res, what |-> what, arg |-> arg]

\* SwapState(role=..., ...) as orchestrator.run constructs it
SwapState(role, current_round) ==
    [ role |-> role,
      status |-> "pending",
      my_address |-> Me,
      peer_address |-> Peer,
      preimage |-> "",
      hash |-> "",
      my_hashlock |-> "",
      peer_hashlock |-> "",
      my_timeout |-> 0,
      peer_timeout |-> 0,
      my_asa_id |-> IF role = "buyer" THEN ASA_A ELSE ASA_B,
      my_asa_amount |-> IF role = "buyer" THEN ASA_A_AMOUNT ELSE ASA_B_AMOUNT,
      peer_asa_id |-> IF role = "buyer" THEN ASA_B ELSE ASA_A,
      peer_asa_amount |-> IF role = "buyer" THEN ASA_B_AMOUNT ELSE ASA_A_AMOUNT,
      fund_algo_amount |-> FUND_ALGO_AMOUNT,
      claim_txid |-> "",
      seen_txids |-> << >>,
      last_seen_round |-> current_round ]

\* save_state: json.dump(state.__dict__): the document holds every field
save_state(st) == st

\* a load that leaves the dedup list of the document behind
load_state_no_dedup(data) ==
    LET fresh == SwapState(data.role, 0) IN
    [ k \in DOMAIN fresh \cup DOMAIN data |->
        IF k \in DOMAIN data /\ k # "seen_txids" THEN data[k] ELSE fresh[k] ]

\* load_state: SwapState(role=data["role"]) and then setattr of every key
\* of the document
load_state(data) ==
    LET fresh == SwapState(data.role, 0) IN
    [ k \in DOMAIN fresh \cup DOMAIN data |->
        IF k \in DOMAIN data THEN data[k] ELSE fresh[k] ]

\* set(state.seen_txids)
Range(s) == { s[i] : i \in DOMAIN s }

Max(a, b) == IF a >= b THEN a ELSE b

-----------------------------------------------------------------------------
(* tool_create_hashlock                                                    *)

\* a seller check that lets a timeout equal to the buyer's pass
SellerTimeoutUnsafe_gt(st, timeout_round) ==
    /\ st.role = "seller"
    /\ st.peer_timeout # 0
    /\ timeout_round > st.peer_timeout

\* `state.role == "seller" and state.peer_timeout and
\*  timeout_round >= int(state.peer_timeout)`
SellerTimeoutUnsafe(st, timeout_round) ==
    /\ st.role = "seller"
    /\ st.peer_timeout # 0
    /\ timeout_round >= st.peer_timeout

\* the checks without the one on the claim-recipient
create_hashlock_error_any_recipient(st, hash_hex, recipient, refund_address, timeout_round) ==
    IF refund_address # st.my_address THEN "refund_address"
    ELSE IF ~HexLen64(hash_hex) THEN "hash length"
    ELSE IF ~IsHex(hash_hex) THEN "hash hex"
    ELSE IF timeout_round <= 0 THEN "timeout_round"
    ELSE ""

\* the checks made before the signer is asked for a key: the error the tool
\* returns, or "" when every check passes
create_hashlock_error(st, hash_hex, recipient, refund_address, timeout_round) ==
    IF recipient # st.peer_address THEN "recipient"
    ELSE IF refund_address # st.my_address THEN "refund_address"
    ELSE IF ~HexLen64(hash_hex) THEN "hash length"
    ELSE IF ~IsHex(hash_hex) THEN "hash hex"
    ELSE IF timeout_round <= 0 THEN "timeout_round"
    ELSE IF SellerTimeoutUnsafe(st, timeout_round) THEN "seller timeout"
    ELSE ""

\* the parameters signer.generate_key is called with for a hashlock-v1 key
hashlock_parameters(hash_hex, recipient, refund_address, timeout_round) ==
    [ hash |-> hash_hex, recipient |-> recipient,
      refund_address |-> refund_address, timeout_round |-> timeout_round ]

\* the state after signer.generate_key returned `address`
create_hashlock_track(st, address, hash_hex, timeout_round) ==
    [st EXCEPT !.my_hashlock = address,
               !.my_timeout = timeout_round,
               !.hash = hash_hex]

\* One orchestrator step: dispatch_tool("create_hashlock", ...), then
\* save_state.  signer.generate_key either returns the address of the new
\* key or raises (signer unavailable, locked, rejected).
tool_create_hashlock(hash_hex, recipient, refund_address, timeout_round) ==
    /\ pc = "idle"
    /\ ret = NoRet
    /\ LET e == create_hashlock_error(state, hash_hex, recipient,
                                      refund_address, timeout_round) IN
       IF e # "" THEN
            /\ state' = state
            /\ keys' = keys
            /\ ret' = Ret("create_hashlock", "error", e,
                          IF e \in {"timeout_round", "seller timeout"}
                          THEN timeout_round ELSE 0)
       ELSE
            \/ /\ state' = state
               /\ keys' = keys
               /\ ret' = Ret("create_hashlock", "raise", "signer", 0)
            \/ \E address \in OwnLocks :
                 /\ state' = create_hashlock_track(state, address, hash_hex,
                                                   timeout_round)
                 /\ keys' = keys \cup {address}
                 /\ ret' = Ret("create_hashlock", "ok", address,
                               hashlock_parameters(hash_hex, recipient,
                                                   refund_address,
                                                   timeout_round))
    /\ file' = save_state(state')
    /\ UNCHANGED <<round, index, pc, seen, transfers, asmVars>>

-----------------------------------------------------------------------------
(* tool_fund_hashlock and tool_fund_hashlock_asa                           *)

fund_hashlock_error(st, from_address, hashlock_address, amount_microalgos) ==
    IF from_address # st.my_address THEN "from_address"
    ELSE IF st.my_hashlock = "" THEN "no my_hashlock"
    ELSE IF hashlock_address # st.my_hashlock THEN "hashlock_address"
    ELSE IF amount_microalgos < st.fund_algo_amount THEN "amount too low"
    ELSE ""

\* a funding check that trusts the address the driver passes
fund_asa_error_any_address(st, from_address, hashlock_address, asa_id, asa_amount) ==
    IF from_address # st.my_address THEN "from_address"
    ELSE IF ~_is_algo(asa_id) /\ asa_id # st.my_asa_id THEN "asa_id"
    ELSE IF asa_amount # st.my_asa_amount THEN "asa_amount"
    ELSE ""

fund_hashlock_asa_error(st, from_address, hashlock_address, asa_id, asa_amount) ==
    IF from_address # st.my_address THEN "from_address"
    ELSE IF st.my_hashlock = "" THEN "no my_hashlock"
    ELSE IF hashlock_address # st.my_hashlock THEN "hashlock_address"
    ELSE IF ~_is_algo(asa_id) /\ asa_id # st.my_asa_id THEN "asa_id"
    ELSE IF asa_amount # st.my_asa_amount THEN "asa_amount"
    ELSE ""

\* a transfer as submitted: PaymentTxn (asa 0) or AssetTransferTxn
Transfer(from_address, to, asa_id, amount) ==
    [from |-> from_address, to |-> to, asa |-> asa_id, amt |-> amount]

\* sign_transaction, send_raw_transaction, wait_for_confirmation: the
\* transfer is confirmed ("ok"), or the signer or the node refuses it and
\* the exception leaves the tool ("rejected": nothing was submitted), or it
\* was submitted and the wait for its confirmation raises ("unconfirmed")
SubmitOutcomes == {"ok", "rejected", "unconfirmed"}

Submit(op, txn, outcome) ==
    /\ transfers' = IF outcome = "rejected" THEN transfers
                    ELSE transfers \cup {txn}
    /\ ret' = IF outcome = "ok" THEN Ret(op, "ok", "", 0)
              ELSE Ret(op, "raise", outcome, 0)

tool_fund_hashlock(from_address, hashlock_address, amount_microalgos) ==
    /\ pc = "idle"
    /\ ret = NoRet
    /\ LET e == fund_hashlock_error(state, from_address, hashlock_address,
                                    amount_microalgos) IN
       IF e # "" THEN
            /\ transfers' = transfers
            /\ ret' = Ret("fund_hashlock", "error", e, 0)
       ELSE \E outcome \in SubmitOutcomes :
            Submit("fund_hashlock",
                   Transfer(from_address, hashlock_address, 0,
                            amount_microalgos), outcome)
    /\ state' = state
    /\ file' = save_state(state')
    /\ UNCHANGED <<round, index, pc, seen, keys, asmVars>>

tool_fund_hashlock_asa(from_address, hashlock_address, asa_id, asa_amount) ==
    /\ pc = "idle"
    /\ ret = NoRet
    /\ LET e == fund_hashlock_asa_error(state, from_address, hashlock_address,
                                        asa_id, asa_amount) IN
       IF e # "" THEN
            /\ transfers' = transfers
            /\ ret' = Ret("fund_hashlock_asa", "error", e, 0)
       ELSE \E outcome \in SubmitOutcomes :
            Submit("fund_hashlock_asa",
                   Transfer(from_address, hashlock_address, asa_id,
                            asa_amount), outcome)
    /\ state' = state
    /\ file' = save_state(state')
    /\ UNCHANGED <<round, index, pc, seen, keys, asmVars>>

-----------------------------------------------------------------------------
(* The ledger index and _poll_messages.                                    *)
(* The index holds the confirmed note transactions addressed to this      *)
(* party, each [id, round]; ids are 1, 2, ... in order of confirmation.    *)
(* A transaction's sender and JSON note enter the tool's decisions when a  *)
(* poll returns the transaction as msgs[0], which dedup allows once; they  *)
(* are drawn at that point (Senders, Notes).                               *)

HtlcTypes == {"htlc_offer", "htlc_accept", "htlc_claimed"}
NoteTypes == HtlcTypes \cup {"swap_propose"}

\* note_json.get("type", "").startswith("htlc_")
is_htlc_type(type) == type \in HtlcTypes

\* The notes a transaction can carry: a note has every field well-formed
\* and as agreed, or one field (the defect) malformed or not as agreed
\* ("numeric": a number field int() raises on).
Defects == {"none", "hash short", "hash nothex", "hashlock_addr",
            "asa_id", "asa_amount", "numeric"}

Note(type, defect, timeout_round) ==
    [ type |-> type,
      hash |-> IF defect = "hash short" THEN "short"
               ELSE IF defect = "hash nothex" THEN "nothex" ELSE "H1",
      hashlock_addr |-> IF defect = "hashlock_addr" THEN BadAddr ELSE PeerLock,
      timeout_round |-> timeout_round,
      numeric |-> defect # "numeric",
      asa_ok |-> defect # "asa_id",        \* asa_id is the agreed peer asset
      amount_ok |-> defect # "asa_amount"  \* asa_amount is the agreed amount
    ]

\* the offers and accepts without defect of every timeout round, those with
\* one defect and the latest timeout round, a note of an htlc_ type the
\* tool does not know, and a note of another protocol
Notes ==
    { Note(type, "none", t) :
        type \in {"htlc_offer", "htlc_accept"}, t \in 0..MaxTimeout }
    \cup { Note(type, defect, MaxTimeout) :
        type \in {"htlc_offer", "htlc_accept"}, defect \in Defects }
    \cup { Note("htlc_claimed", "none", 1), Note("swap_propose", "none", 1) }

\* int(note.get("asa_id", -1)) and int(note.get("asa_amount", -1))
note_asa_id(st, note) == IF note.asa_ok THEN st.peer_asa_id ELSE -1
note_asa_amount(st, note) == IF note.amount_ok THEN st.peer_asa_amount ELSE -1

\* the transactions the Indexer query covers: every note to `address` when
\* last_round is 0 (no min-round parameter), else those confirmed at
\* min-round or later
covered(last_round) ==
    { t \in index : last_round > 0 => t.round >= last_round }

\* _poll_messages(address, last_round, seen_txids): the transactions of
\* the response that are not in seen_txids.  The response has no
\* guaranteed order, so the result is a set and msgs[0] is any element of
\* it whose note carries an htlc_ type.
htlc_poll_messages(last_round, seen_txids) ==
    { t \in covered(last_round) : t.id \notin seen_txids }

-----------------------------------------------------------------------------
(* tool_wait_for_message (HTLC)                                            *)

\* a marking that moves the watermark and forgets the id
dedup_mark_round_only(st, msg) ==
    [st EXCEPT !.last_seen_round = Max(@, msg.round)]

\* the dedup marking: state.seen_txids.append(msg["txid"]) and
\* state.last_seen_round = max(state.last_seen_round, msg["round"])
dedup_mark(st, msg) ==
    [st EXCEPT !.seen_txids = Append(@, msg.id),
               !.last_seen_round = Max(@, msg.round)]

\* `state.my_timeout and note_timeout >= int(state.my_timeout)`
AcceptTimeoutUnsafe(st, note_timeout) ==
    /\ st.my_timeout # 0
    /\ note_timeout >= st.my_timeout

\* the error an htlc_offer is rejected with, or ""
htlc_offer_error(st, note) ==
    IF ~HexLen64(note.hash) THEN "hash length"
    ELSE IF ~IsHex(note.hash) THEN "hash hex"
    ELSE IF ~_is_valid_address(note.hashlock_addr) THEN "hashlock_addr"
    ELSE IF note.timeout_round <= 0 THEN "timeout_round"
    ELSE IF note_asa_id(st, note) # st.peer_asa_id THEN "asa_id"
    ELSE IF note_asa_amount(st, note) # st.peer_asa_amount THEN "asa_amount"
    ELSE ""

\* the error an htlc_accept is rejected with, or ""
htlc_accept_error(st, note) ==
    IF ~_is_valid_address(note.hashlock_addr) THEN "hashlock_addr"
    ELSE IF note.timeout_round <= 0 THEN "timeout_round"
    ELSE IF AcceptTimeoutUnsafe(st, note.timeout_round) THEN "unsafe timeout"
    ELSE IF note_asa_id(st, note) # st.peer_asa_id THEN "asa_id"
    ELSE IF note_asa_amount(st, note) # st.peer_asa_amount THEN "asa_amount"
    ELSE ""

htlc_offer_update(st, note) ==
    [st EXCEPT !.hash = note.hash,
               !.peer_hashlock = note.hashlock_addr,
               !.peer_timeout = note.timeout_round,
               !.peer_asa_id = note_asa_id(st, note),
               !.peer_asa_amount = note_asa_amount(st, note),
               !.status = "offer_received"]

htlc_accept_update(st, note) ==
    [st EXCEPT !.peer_hashlock = note.hashlock_addr,
               !.peer_timeout = note.timeout_round,
               !.peer_asa_id = note_asa_id(st, note),
               !.peer_asa_amount = note_asa_amount(st, note),
               !.status = "accept_received"]

\* what the tool does with a dedup-marked note of the peer: the new state
\* and the result.  int(note.get("timeout_round", 0)), int(asa_id) and
\* int(asa_amount) raise on a value that is no integer, before any check.
htlc_on_peer_note(st, type, note) ==
    IF type \in {"htlc_offer", "htlc_accept"} /\ ~note.numeric THEN
        [st |-> st, res |-> "raise", err |-> "int"]
    ELSE IF type = "htlc_offer" THEN
        LET e == htlc_offer_error(st, note) IN
        IF e # "" THEN [st |-> st, res |-> "error", err |-> e]
        ELSE [st |-> htlc_offer_update(st, note), res |-> "ok", err |-> type]
    ELSE IF type = "htlc_accept" THEN
        LET e == htlc_accept_error(st, note) IN
        IF e # "" THEN [st |-> st, res |-> "error", err |-> e]
        ELSE [st |-> htlc_accept_update(st, note), res |-> "ok", err |-> type]
    ELSE [st |-> st, res |-> "error", err |-> "unknown type"]

\* a sender check against the wrong address of the session
is_non_peer_my_address(st, msg) == msg.sender = st.my_address

\* `sender != state.peer_address`
is_non_peer(st, msg) == msg.sender # st.peer_address

\* the tool is entered: seen = set(state.seen_txids)
htlc_wait_begin ==
    /\ pc = "idle"
    /\ ret = NoRet
    /\ pc' = "wait_for_message"
    /\ seen' = Range(state.seen_txids)
    /\ UNCHANGED <<state, file, round, index, ret, keys, transfers, asmVars>>

\* one iteration of the polling loop that finds a message, msgs[0] being
\* the transaction txn sent by sender with the JSON note `note`: a note of
\* a non-peer sender is dedup-marked and dropped and the loop continues; a
\* note of the peer is dedup-marked and ends the tool (and the orchestrator
\* saves the state).
htlc_wait_step(txn, sender, note) ==
    LET msg == [id |-> txn.id, round |-> txn.round, sender |-> sender] IN
    /\ pc = "wait_for_message"
    /\ txn \in htlc_poll_messages(state.last_seen_round, seen)
    /\ is_htlc_type(note.type)
    /\ IF is_non_peer(state, msg) THEN
           /\ UNCHANGED <<pc, file>>
           /\ ret' = NoRet
           /\ seen' = seen \cup {msg.id}
           /\ state' = dedup_mark(state, msg)
       ELSE
           LET out == htlc_on_peer_note(dedup_mark(state, msg),
                                        note.type, note) IN
           /\ pc' = "idle"
           /\ seen' = {}
           /\ ret' = Ret("wait_for_message", out.res, out.err,
                         IF out.res = "ok" \/ out.err = "unsafe timeout"
                         THEN note.timeout_round ELSE 0)
           /\ state' = out.st
           /\ file' = save_state(state')
    /\ UNCHANGED <<round, index, keys, transfers, asmVars>>

\* An iteration that finds nothing sleeps and changes nothing.
htlc_wait_poll ==
    \E txn \in index, sender \in Senders, note \in Notes :
        htlc_wait_step(txn, sender, note)

\* a deadline that raises instead of returning
htlc_wait_timeout_raises ==
    /\ pc = "wait_for_message"
    /\ pc' = "idle"
    /\ seen' = {}
    /\ ret' = Ret("wait_for_message", "raise", "timeout", 0)
    /\ state' = state
    /\ file' = save_state(state')
    /\ UNCHANGED <<round, index, keys, transfers, asmVars>>

\* the deadline passes: {"error": "No incoming htlc message within ..."}
htlc_wait_timeout ==
    /\ pc = "wait_for_message"
    /\ pc' = "idle"
    /\ seen' = {}
    /\ ret' = Ret("wait_for_message", "error", "timeout", 0)
    /\ state' = state
    /\ file' = save_state(state')
    /\ UNCHANGED <<round, index, keys, transfers, asmVars>>

-----------------------------------------------------------------------------
(* The environment of a session, and the orchestrator.                     *)

\* the ledger confirms a round
Tick ==
    /\ ret = NoRet
    /\ round < MaxRound
    /\ round' = round + 1
    /\ UNCHANGED <<state, file, index, pc, seen, ret, keys, transfers, asmVars>>

\* a note sent to this party is confirmed in the current round and indexed
ConfirmNote ==
    /\ ret = NoRet
    /\ Cardinality(index) < MaxNotes
    /\ index' = index \cup { [id |-> Cardinality(index) + 1, round |-> round] }
    /\ UNCHANGED <<state, file, round, pc, seen, ret, keys, transfers, asmVars>>

\* the orchestrator is run again on the saved session: load_state(state_path)
Restart ==
    /\ pc = "idle"
    /\ ret = NoRet
    /\ state' = load_state(file)
    /\ UNCHANGED <<file, round, index, pc, seen, ret, keys, transfers, asmVars>>

\* the orchestrator hands the result of the tool call to the driver, which
\* takes its next turn
next_turn ==
    /\ ret # NoRet
    /\ ret' = NoRet
    /\ UNCHANGED <<state, file, round, index, pc, seen, keys, transfers, asmVars>>

\* the arguments a driver may pass to create_hashlock, as <<hash_hex,
\* recipient, refund_address, timeout_round>>: every timeout round with
\* the other arguments valid, and one call per invalid argument
CreateArgs ==
    { <<h, Peer, Me, t>> : h \in Hashes, t \in 0..MaxTimeout }
    \cup { <<"short", Peer, Me, 1>>, <<"nothex", Peer, Me, 1>>,
           <<"H1", Me, Me, 1>>, <<"H1", Peer, Peer, 1>> }

\* the arguments a driver may pass to fund_hashlock, as <<from_address,
\* hashlock_address, amount_microalgos>>, and to fund_hashlock_asa, as
\* <<from_address, hashlock_address, asa_id, asa_amount>>
ArgLocks == OwnLocks \cup {OtherLock}

FundArgs ==
    { <<Me, l, FUND_ALGO_AMOUNT>> : l \in ArgLocks }
    \cup { <<Me, "L1", FUND_ALGO_AMOUNT - 1>>, <<Peer, "L1", FUND_ALGO_AMOUNT>> }

FundAsaArgs ==
    { <<Me, l, asa, ASA_A_AMOUNT>> : l \in ArgLocks, asa \in {ASA_A, ASA_B} }
    \cup { <<Me, "L1", ASA_B, ASA_A_AMOUNT + 1>>,
           <<Peer, "L1", ASA_B, ASA_A_AMOUNT>> }

\* SignerClient.__init__ without an ssh_config: self._ssh_tunnel is None
NoTunnel == [running |-> FALSE]

AsmIdle ==
    /\ signed_lists = << >>
    /\ merged = Pending
    /\ boxes = {}
    /\ tunnel = NoTunnel
    /\ _key_cache = {}

\* orchestrator.run: a fresh SwapState whose watermark is the current
\* round, saved at once
Init ==
    /\ round = 1
    /\ \E role \in {"buyer", "seller"} : state = SwapState(role, round)
    /\ file = save_state(state)
    /\ index = {}
    /\ pc = "idle"
    /\ seen = {}
    /\ ret = NoRet
    /\ keys = {}
    /\ transfers = {}
    /\ AsmIdle

\* the HTLC session with its message channel and its lock
Next ==
    \/ Tick
    \/ ConfirmNote
    \/ \E a \in CreateArgs : tool_create_hashlock(a[1], a[2], a[3], a[4])
    \/ htlc_wait_begin
    \/ htlc_wait_poll
    \/ htlc_wait_timeout
    \/ next_turn
    \/ Restart

Spec == Init /\ [][Next]_vars

-----------------------------------------------------------------------------
(* The assembler specification: one call of assemble_group on any input.   *)

\* no session is running
SessionIdle ==
    /\ round = 1
    /\ state = SwapState("buyer", round)
    /\ file = save_state(state)
    /\ index = {}
    /\ pc = "idle"
    /\ seen = {}
    /\ ret = NoRet
    /\ keys = {}
    /\ transfers = {}

InitAsm ==
    /\ signed_lists \in SignedListsInputs
    /\ merged = Pending
    /\ boxes = {}
    /\ tunnel = NoTunnel
    /\ _key_cache = {}
    /\ SessionIdle

\* merged = assemble_group(signed_lists)
AssembleGroup ==
    /\ merged = Pending
    /\ merged' = assemble_group(signed_lists)
    /\ UNCHANGED <<_key_cache, tunnel, signed_lists, boxes, sessionVars>>

NextAsm == AssembleGroup

SpecAsm == InitAsm /\ [][NextAsm]_vars

\* what the contract of the assembler speaks of
Called == merged # Pending
EqualLengths(lists) == \A i \in 1..Len(lists) : Len(lists[i]) = Len(lists[1])
Signers(lists, idx) == { k \in 1..Len(lists) : lists[k][idx] # << >> }
ExactlyOnePerSlot(lists) ==
    /\ EqualLengths(lists)
    /\ \A idx \in 1..Len(lists[1]) : Cardinality(Signers(lists, idx)) = 1
BadSlots(lists) ==
    { idx \in 1..Len(lists[1]) : Cardinality(Signers(lists, idx)) # 1 }
FirstBadSlot(lists) ==
    CHOOSE idx \in BadSlots(lists) : \A j \in BadSlots(lists) : idx <= j

\* the entry of slot idx, when exactly one list holds one
Resolved(lists, idx) == lists[CHOOSE k \in Signers(lists, idx) : TRUE][idx]
RECURSIVE ResolvedBytes(_, _)
ResolvedBytes(lists, idx) ==
    IF idx > Len(lists[1]) THEN << >>
    ELSE b64decode(Resolved(lists, idx)) \o ResolvedBytes(lists, idx + 1)

Injective(f) == \A a, b \in DOMAIN f : f[a] = f[b] => a = b
ListOrders(k) == { f \in [1..k -> 1..k] : Injective(f) }
Permuted(lists, f) == [ i \in 1..Len(lists) |-> lists[f[i]] ]

\* C1: a call on K >= 1 lists returns a group iff the lists have one length
\* and every slot has exactly one non-empty entry; lists of unequal length
\* fail; otherwise the first slot without exactly one entry fails the call,
\* as "no signer" when nobody signed it and as "multiple signers" when more
\* than one did; a failing call returns no group, partial or not.
C1_AssembleIff ==
    (Called /\ Len(signed_lists) >= 1) =>
        /\ merged.ok <=> ExactlyOnePerSlot(signed_lists)
        /\ ~EqualLengths(signed_lists) => merged.error = "length"
        /\ (EqualLengths(signed_lists) /\ BadSlots(signed_lists) # {}) =>
             LET idx == FirstBadSlot(signed_lists) IN
             /\ merged.slot = idx - 1
             /\ merged.error =
                  IF Signers(signed_lists, idx) = {} THEN "no signer"
                  ELSE "multiple signers"
        /\ ~merged.ok => "value" \notin DOMAIN merged

\* two lists of two slots, the second slot signed by both
C1_Witness ==
    /\ Called
    /\ ~merged.ok
    /\ merged.error = "multiple signers"
    /\ Len(signed_lists) = 2
    /\ Len(signed_lists[1]) = 2
    /\ Cardinality(Signers(signed_lists, 1)) = 1
    /\ Cardinality(Signers(signed_lists, 2)) = 2

\* C2: a group that is returned is the base64 of the bytes of the resolved
\* entries joined in slot order, and the same group is returned for every
\* order in which the signer lists are passed.
C2_SlotOrderAnyListOrder ==
    (Called /\ merged.ok) =>
        /\ b64decode(merged.value) = ResolvedBytes(signed_lists, 1)
        /\ \A f \in ListOrders(Len(signed_lists)) :
             assemble_group(Permuted(signed_lists, f)) = merged

\* the second list signed the first slot and the first list the second,
\* with different transactions
C2_Witness ==
    /\ Called
    /\ merged.ok
    /\ Len(signed_lists) = 2
    /\ Len(signed_lists[1]) = 2
    /\ Signers(signed_lists, 1) = {2}
    /\ Signers(signed_lists, 2) = {1}
    /\ signed_lists[2][1] # signed_lists[1][2]

-----------------------------------------------------------------------------
(* Properties of the HTLC session (Spec).                                  *)

BothTimeoutsRecorded == state.my_timeout # 0 /\ state.peer_timeout # 0

\* C3: whenever the own and the peer lock timeout are both recorded, the
\* seller's timeout round is strictly less than the buyer's.
C3_SellerBeforeBuyer ==
    BothTimeoutsRecorded =>
        IF state.role = "seller" THEN state.my_timeout < state.peer_timeout
        ELSE state.peer_timeout < state.my_timeout

LockFields(st) == <<st.my_hashlock, st.my_timeout, st.hash>>
AcceptFields(st) == <<st.peer_hashlock, st.peer_timeout, st.status>>

ValidCreateArgs(hash_hex, recipient, refund_address) ==
    /\ recipient = state.peer_address
    /\ refund_address = state.my_address
    /\ HexLen64(hash_hex)
    /\ IsHex(hash_hex)

\* a create_hashlock call of a seller session that knows the buyer's timeout
C4_SellerCreate(h, rc, rf, t) ==
    ( /\ state.role = "seller"
      /\ state.peer_timeout # 0
      /\ tool_create_hashlock(h, rc, rf, t) ) =>
        /\ t >= state.peer_timeout =>
             /\ ret'.res = "error"
             /\ keys' = keys
             /\ LockFields(state') = LockFields(state)
        /\ ( /\ t = state.peer_timeout - 1
             /\ t > 0
             /\ ValidCreateArgs(h, rc, rf) ) =>
             /\ ret'.res # "error"
             /\ ret'.res = "ok" =>
                  /\ state'.my_timeout = t
                  /\ state'.my_hashlock \in keys'

\* an htlc_accept of the peer taken by a buyer session that has its own lock
C4_BuyerAccept(txn, note) ==
    ( /\ state.role = "buyer"
      /\ state.my_timeout # 0
      /\ note.type = "htlc_accept"
      /\ htlc_wait_step(txn, state.peer_address, note) ) =>
        /\ note.timeout_round >= state.my_timeout =>
             /\ ret'.res \in {"error", "raise"}
             /\ note.numeric => ret'.res = "error"
             /\ AcceptFields(state') = AcceptFields(state)
        /\ ( /\ note = Note("htlc_accept", "none", state.my_timeout - 1)
             /\ state.my_timeout > 1 ) =>
             /\ ret'.res = "ok"
             /\ AcceptFields(state') =
                  <<note.hashlock_addr, state.my_timeout - 1, "accept_received">>

\* C4: (a) a seller session that knows the buyer's timeout T rejects every
\* create_hashlock with timeout_round >= T with an error, asks the signer
\* for no key and leaves my_hashlock, my_timeout and hash as they were,
\* while T-1 passes; (b) a buyer session whose own timeout is T rejects an
\* htlc_accept of the peer with timeout_round >= T and leaves peer_hashlock,
\* peer_timeout and status as they were, while T-1 is accepted.
C4_TimeoutBoundary ==
    [][ /\ ret'.op = "create_hashlock" =>
              \A a \in CreateArgs : C4_SellerCreate(a[1], a[2], a[3], a[4])
        /\ ret'.op = "wait_for_message" =>
              \A txn \in index, note \in Notes : C4_BuyerAccept(txn, note)
      ]_vars

\* a timeout equal to the counterpart's has just been rejected
C4_Witness ==
    \/ /\ state.role = "seller"
       /\ ret = Ret("create_hashlock", "error", "seller timeout",
                    state.peer_timeout)
    \/ /\ state.role = "buyer"
       /\ ret = Ret("wait_for_message", "error", "unsafe timeout",
                    state.my_timeout)

\* the set `seen` a poll of this session filters with, now or when
\* wait_for_message is entered next
SeenNow == IF pc = "wait_for_message" THEN seen ELSE Range(state.seen_txids)

Consumed == Range(state.seen_txids)

\* the saved session, reloaded
Reloaded == load_state(save_state(state))

\* C7: a consumed transaction id stays consumed and the watermark never
\* falls (across tool calls and across a reload of the saved session, which
\* has the same seen ids and watermark), no poll returns a consumed id
\* whatever its min-round, and no step of wait_for_message acts on one.
C7_ConsumedOnce ==
    /\ [] /\ Reloaded.seen_txids = state.seen_txids
          /\ Reloaded.last_seen_round = state.last_seen_round
          /\ \A last_round \in 0..MaxRound :
               \A t \in htlc_poll_messages(last_round, SeenNow) :
                  t.id \notin Consumed
    /\ [][ /\ Consumed \subseteq Range(state'.seen_txids)
           /\ state.last_seen_round <= state'.last_seen_round
           /\ state'.seen_txids # state.seen_txids =>
                \A txn \in index : txn.id \in Consumed =>
                   \A sender \in Senders, note \in Notes :
                      ~htlc_wait_step(txn, sender, note)
         ]_vars

\* a wait is polling, a consumed transaction is still within the range the
\* query covers, and an unconsumed one is there to take
C7_Witness ==
    /\ pc = "wait_for_message"
    /\ \E t \in covered(state.last_seen_round) : t.id \in Consumed
    /\ htlc_poll_messages(state.last_seen_round, seen) # {}

\* C8: a note whose sender is not the peer is dedup-marked and otherwise
\* ignored: no other field of the state changes, the tool does not return,
\* and the polls that follow do not deliver the note.
C8_NonPeerIgnored ==
    [][ state'.seen_txids # state.seen_txids =>
        \A txn \in index, sender \in Senders \ {state.peer_address},
           note \in Notes :
          htlc_wait_step(txn, sender, note) =>
            /\ state' = [state EXCEPT
                           !.seen_txids = Append(@, txn.id),
                           !.last_seen_round = Max(@, txn.round)]
            /\ pc' = "wait_for_message"
            /\ ret' = NoRet
            /\ txn \notin htlc_poll_messages(state'.last_seen_round, seen')
      ]_vars

\* a wait has consumed a third party's note and goes on polling
C8_Witness ==
    /\ pc = "wait_for_message"
    /\ state.seen_txids # file.seen_txids
    /\ [state EXCEPT !.seen_txids = file.seen_txids,
                     !.last_seen_round = file.last_seen_round] = file

-----------------------------------------------------------------------------
(* The funding specification: an HTLC session that creates and funds its   *)
(* lock while notes arrive.                                                *)

NextFund ==
    \/ ConfirmNote
    \/ \E a \in CreateArgs : tool_create_hashlock(a[1], a[2], a[3], a[4])
    \/ \E a \in FundArgs : tool_fund_hashlock(a[1], a[2], a[3])
    \/ \E a \in FundAsaArgs : tool_fund_hashlock_asa(a[1], a[2], a[3], a[4])
    \/ htlc_wait_begin
    \/ htlc_wait_poll
    \/ htlc_wait_timeout
    \/ next_turn

SpecFund == Init /\ [][NextFund]_vars

Funding == {"fund_hashlock", "fund_hashlock_asa"}

\* C5: every transfer a funding tool submits goes to a lock address that a
\* successful create_hashlock recorded; a create_hashlock that is rejected
\* asks the signer for no key, records no lock and submits nothing; and
\* while no lock is recorded every funding call returns an error and
\* submits no transfer.
C5_FundOnlyRecordedLock ==
    /\ [] /\ \A x \in transfers : x.to \in keys
          /\ state.my_hashlock = "" => transfers = {}
          /\ state.my_hashlock # "" => state.my_hashlock \in keys
    /\ [][ /\ (ret'.op = "create_hashlock" /\ ret'.res = "error") =>
                /\ keys' = keys
                /\ transfers' = transfers
                /\ state'.my_hashlock = state.my_hashlock
           /\ (ret'.op \in Funding /\ state.my_hashlock = "") =>
                /\ ret'.res = "error"
                /\ transfers' = transfers
           /\ transfers' # transfers =>
                /\ ret'.op \in Funding
                /\ \A x \in transfers' \ transfers : x.to = state.my_hashlock
         ]_vars

\* a seller whose timeout was rejected has just been refused funding
C5_Witness ==
    /\ state.role = "seller"
    /\ state.peer_timeout # 0
    /\ state.my_hashlock = ""
    /\ keys = {}
    /\ ret = Ret("fund_hashlock_asa", "error", "no my_hashlock", 0)

-----------------------------------------------------------------------------
(* The generic atomic swap (examples/atomicswap): its session and its      *)
(* wait_for_message.  The index, the rounds and the senders are those of   *)
(* the HTLC session; the notes are of the swap_ types.                     *)

SwapAppId == 7      \* the exchange-store application of the swap
OtherAppId == 8     \* another application
OtherAsa == 99      \* an asset that is no part of the agreed terms
OtherAmount == 5

\* SwapState(role=..., ...) of atomicswap/state.py, created with the terms
\* of config.py and the watermark last_seen_round
swap_SwapState(role, last_seen_round) ==
    [ role |-> role,
      status |-> "pending",
      my_address |-> Me,
      peer_address |-> Peer,
      my_asa_id |-> IF role = "buyer" THEN ASA_A ELSE ASA_B,
      my_asa_amount |-> IF role = "buyer" THEN ASA_A_AMOUNT ELSE ASA_B_AMOUNT,
      peer_asa_id |-> IF role = "buyer" THEN ASA_B ELSE ASA_A,
      peer_asa_amount |-> IF role = "buyer" THEN ASA_B_AMOUNT ELSE ASA_A_AMOUNT,
      group_txid |-> 0,           \* "": transaction ids are numbers here
      swap_app_id |-> 0,
      swap_box_name |-> [digest |-> << >>],   \* "": no hash
      seen_txids |-> << >>,
      last_seen_round |-> last_seen_round ]

\* load_state of atomicswap/state.py
swap_load_state(data) ==
    LET fresh == swap_SwapState(data.role, 0) IN
    [ k \in DOMAIN fresh \cup DOMAIN data |->
        IF k \in DOMAIN data THEN data[k] ELSE fresh[k] ]

SwapTypes == {"swap_propose", "swap_partial", "swap_cancel"}

\* note_json.get("type", "").startswith("swap_")
is_swap_type(type) == type \in SwapTypes

\* A swap note: has_offer says whether offer_asa and offer_amount are
\* present; app_id is 0 when the note has none (or a falsy one); numeric is
\* FALSE when app_id is a string int() raises on.
SwapNote(type, has_offer, offer_asa, offer_amount, app_id, numeric) ==
    [ type |-> type, has_offer |-> has_offer, offer_asa |-> offer_asa,
      offer_amount |-> offer_amount, app_id |-> app_id, numeric |-> numeric ]

\* the notes a transaction can carry: proposals with the agreed terms and
\* with other terms, with and without an application id, partials, a note
\* of a swap_ type the tool does not know, and a note of another protocol
SwapNotes ==
    { SwapNote("swap_propose", TRUE, asa, ASA_A_AMOUNT, app, TRUE) :
        asa \in {ASA_A, ASA_B}, app \in {0, SwapAppId} }
    \cup { SwapNote("swap_propose", TRUE, OtherAsa, OtherAmount, OtherAppId, TRUE),
           SwapNote("swap_propose", FALSE, 0, 0, SwapAppId, TRUE),
           SwapNote("swap_propose", TRUE, OtherAsa, OtherAmount, SwapAppId, FALSE),
           SwapNote("swap_partial", FALSE, 0, 0, 0, TRUE),
           SwapNote("swap_partial", FALSE, 0, 0, SwapAppId, TRUE),
           SwapNote("swap_partial", FALSE, 0, 0, OtherAppId, TRUE),
           SwapNote("swap_partial", FALSE, 0, 0, SwapAppId, FALSE),
           SwapNote("swap_cancel", FALSE, 0, 0, 0, TRUE),
           SwapNote("htlc_offer", FALSE, 0, 0, 0, TRUE) }

\* _poll_messages of atomicswap/tools.py
swap_poll_messages(last_round, seen_txids) ==
    { t \in covered(last_round) : t.id \notin seen_txids }

\* state.seen_txids.append(msg["txid"]) and the fold of the round
swap_dedup_mark(st, msg) ==
    [st EXCEPT !.seen_txids = Append(@, msg.id),
               !.last_seen_round = Max(@, msg.round)]

\* `if note.get("app_id"): state.swap_app_id = int(note["app_id"])`: the
\* state after it, or "raise"
swap_set_app_id(st, note) ==
    IF note.app_id = 0 /\ note.numeric THEN [st |-> st, res |-> "ok"]
    ELSE IF ~note.numeric THEN [st |-> st, res |-> "raise"]
    ELSE [st |-> [st EXCEPT !.swap_app_id = note.app_id], res |-> "ok"]

\* what the tool does with a dedup-marked note: the new state and the
\* result.  The sender of the message plays no part.
swap_on_note(st, type, note) ==
    IF type = "swap_propose" THEN
        LET terms == [st EXCEPT
                        !.peer_asa_id =
                            IF note.has_offer THEN note.offer_asa ELSE @,
                        !.peer_asa_amount =
                            IF note.has_offer THEN note.offer_amount ELSE @]
            app == swap_set_app_id(terms, note)
        IN  IF app.res = "raise" THEN [st |-> terms, res |-> "raise"]
            ELSE [st |-> [app.st EXCEPT !.status = "propose_received"],
                  res |-> "ok"]
    ELSE IF type = "swap_partial" THEN
        LET app == swap_set_app_id(st, note) IN
        IF app.res = "raise" THEN [st |-> st, res |-> "raise"]
        ELSE [st |-> [app.st EXCEPT !.status = "partial_received"],
              res |-> "ok"]
    ELSE [st |-> st, res |-> "ok"]

\* the tool is entered: seen = set(state.seen_txids)
swap_wait_begin ==
    /\ pc = "idle"
    /\ ret = NoRet
    /\ pc' = "wait_for_message"
    /\ seen' = Range(state.seen_txids)
    /\ UNCHANGED <<state, file, round, index, ret, keys, transfers, asmVars>>

\* one iteration of the polling loop that finds a message: msgs[0] is
\* dedup-marked and processed, and the tool returns it (or int() raises);
\* the driver then saves the session
swap_wait_step(txn, sender, note) ==
    LET msg == [id |-> txn.id, round |-> txn.round, sender |-> sender]
        out == swap_on_note(swap_dedup_mark(state, msg), note.type, note)
    IN
    /\ pc = "wait_for_message"
    /\ txn \in swap_poll_messages(state.last_seen_round, seen)
    /\ is_swap_type(note.type)
    /\ state' = out.st
    /\ ret' = Ret("wait_for_message", out.res,
                  IF out.res = "ok" THEN note.type ELSE "int", 0)
    /\ pc' = "idle"
    /\ seen' = {}
    /\ file' = state'
    /\ UNCHANGED <<round, index, keys, transfers, asmVars>>

swap_wait_poll ==
    \E txn \in index, sender \in Senders, note \in SwapNotes :
        swap_wait_step(txn, sender, note)

\* the deadline passes: {"error": "No incoming swap message within ..."}
swap_wait_timeout ==
    /\ pc = "wait_for_message"
    /\ pc' = "idle"
    /\ seen' = {}
    /\ ret' = Ret("wait_for_message", "error", "timeout", 0)
    /\ state' = state
    /\ file' = state'
    /\ UNCHANGED <<round, index, keys, transfers, asmVars>>

\* _poll_incoming_asa(address, asa_id, min_round, seen_txids): the
\* transfers of the asset to this party the query covers that are not in
\* seen_txids.  For ALGO the query returns payments, of which those of
\* amount 0 (the notes) are skipped.
poll_incoming_asa(asa_id, min_round, seen_txids) ==
    { t \in transfers : /\ t.asa = asa_id
                        /\ min_round > 0 => t.round >= min_round
                        /\ t.id \notin seen_txids
                        /\ _is_algo(asa_id) => t.amt # 0 }

\* the state after wait_for_asa_transfer detected the transfer
asa_transfer_detected(st, incoming) ==
    [st EXCEPT !.group_txid = incoming.id,
               !.seen_txids = Append(@, incoming.id)]

\* what the driver passes as asa_id: an asset of the swap, or a value
\* int() raises on
AsaArgs ==
    { [asa |-> a, numeric |-> TRUE] : a \in {ASA_A, ASA_B} }
    \cup { [asa |-> 0, numeric |-> FALSE] }

\* One call of wait_for_asa_transfer and the save of the session.
\* int(asa_id) raises before the loop; otherwise the call ends with the
\* first transfer a poll returns, or at its deadline with an error when no
\* poll returned one (nothing to find, or the Indexer did not answer).
tool_wait_for_asa_transfer(asa_id) ==
    /\ pc = "idle"
    /\ ret = NoRet
    /\ IF ~asa_id.numeric THEN
            /\ state' = state
            /\ ret' = Ret("wait_for_asa_transfer", "raise", "int", 0)
       ELSE
            \/ /\ state' = state
               /\ ret' = Ret("wait_for_asa_transfer", "error", "timeout", 0)
            \/ \E incoming \in poll_incoming_asa(asa_id.asa,
                                   state.last_seen_round,
                                   Range(state.seen_txids)) :
                 /\ state' = asa_transfer_detected(state, incoming)
                 /\ ret' = Ret("wait_for_asa_transfer", "ok", "",
                               incoming.id)
    /\ file' = state'
    /\ UNCHANGED <<round, index, pc, seen, keys, transfers, asmVars>>

MaxTransfers == 1   \* at most this many transfers to the party are confirmed

\* the ledger confirms a transfer of an asset of the swap to this party,
\* sent by anyone; its id is none of a note
ConfirmTransfer ==
    /\ ret = NoRet
    /\ Cardinality(transfers) < MaxTransfers
    /\ \E asa \in {ASA_A, ASA_B} :
         transfers' = transfers \cup
            { [id |-> 100 + Cardinality(transfers) + 1, round |-> round,
               asa |-> asa, amt |-> ASA_A_AMOUNT] }
    /\ UNCHANGED <<state, file, round, index, pc, seen, ret, keys, asmVars>>

\* the driver is run again on the saved session
swap_Restart ==
    /\ pc = "idle"
    /\ ret = NoRet
    /\ state' = swap_load_state(file)
    /\ UNCHANGED <<file, round, index, pc, seen, ret, keys, transfers, asmVars>>

\* a fresh swap session, with the watermark of the dataclass default or of
\* the current round
InitSwap ==
    /\ round = 1
    /\ \E role \in {"buyer", "seller"}, last_seen_round \in {0, round} :
          state = swap_SwapState(role, last_seen_round)
    /\ file = state
    /\ index = {}
    /\ pc = "idle"
    /\ seen = {}
    /\ ret = NoRet
    /\ keys = {}
    /\ transfers = {}
    /\ AsmIdle

NextSwap ==
    \/ Tick
    \/ ConfirmNote
    \/ swap_wait_begin
    \/ swap_wait_poll
    \/ swap_wait_timeout
    \/ next_turn
    \/ swap_Restart

SpecSwap == InitSwap /\ [][NextSwap]_vars

SwapTerms(st) ==
    <<st.peer_asa_id, st.peer_asa_amount, st.swap_app_id, st.status>>

\* C9: a swap_propose or swap_partial note whose sender is not the peer is
\* dedup-marked and ignored: peer_asa_id, peer_asa_amount, swap_app_id and
\* status stay as they were and the tool does not return the note.
C9_SwapNonPeerIgnored ==
    [][ pc = "wait_for_message" =>
        \A txn \in index, sender \in Senders \ {state.peer_address},
           note \in SwapNotes :
          ( /\ note.type \in {"swap_propose", "swap_partial"}
            /\ swap_wait_step(txn, sender, note) ) =>
            /\ txn.id \in Range(state'.seen_txids)
            /\ SwapTerms(state') = SwapTerms(state)
            /\ pc' = "wait_for_message"
            /\ ret'.res # "ok"
      ]_vars

-----------------------------------------------------------------------------
(* Both message channels: a session of either example.                     *)

IsHtlcSession == "my_hashlock" \in DOMAIN state
IsSwapSession == "swap_app_id" \in DOMAIN state

NextChannels ==
    \/ IsHtlcSession /\ Next
    \/ IsSwapSession /\ NextSwap

SpecChannels == (Init \/ InitSwap) /\ [][NextChannels]_vars

\* the marking of transaction txn is in the state after the step, the poll
\* that follows does not deliver txn, and a tool that returns leaves the
\* marking in the saved session
Marked(txn) ==
    /\ state'.seen_txids = Append(state.seen_txids, txn.id)
    /\ state'.last_seen_round = Max(state.last_seen_round, txn.round)
    /\ \A t \in covered(state'.last_seen_round) :
          t.id = txn.id => t.id \in Range(state'.seen_txids) \cup seen'
    /\ pc' = "idle" => /\ file'.seen_txids = state'.seen_txids
                       /\ file'.last_seen_round = state'.last_seen_round

\* C10: whatever the sender and the note of a message that wait_for_message
\* takes from a poll, and whatever the outcome (returned, ignored, rejected
\* with an error, int() raising), its id is appended to seen_txids and its
\* round folded by max into last_seen_round, in the HTLC and in the generic
\* swap; the message is not delivered again.
C10_MarkedBeforeChecks ==
    [][ pc = "wait_for_message" =>
        /\ IsHtlcSession =>
             \A txn \in index, sender \in Senders, note \in Notes :
                htlc_wait_step(txn, sender, note) => Marked(txn)
        /\ IsSwapSession =>
             \A txn \in index, sender \in Senders, note \in SwapNotes :
                swap_wait_step(txn, sender, note) => Marked(txn)
      ]_vars

\* an HTLC wait has just rejected a note of the peer, the id of which is
\* the last of seen_txids
C10_Witness ==
    /\ IsHtlcSession
    /\ ret.op = "wait_for_message"
    /\ ret.res \in {"error", "raise"}
    /\ ret.what \in {"unsafe timeout", "asa_id", "unknown type", "int"}
    /\ Len(state.seen_txids) >= 1
    /\ file.seen_txids = state.seen_txids


-----------------------------------------------------------------------------
(* The two hash-lock accounts of one HTLC swap, seen from the seller's     *)
(* session from the receipt of the buyer's offer on (SpecLock).            *)
(* The lock program itself runs on the ledger and is no part of the        *)
(* examples; its rules are those the protocol description gives: a lock    *)
(* pays its claim-recipient against a preimage of its hash, and pays its   *)
(* refund-recipient once the round is past its timeout round.  The buyer   *)
(* holds one secret; its lock and its offer commit to the hash of it.      *)

MaxLockRound == 4       \* the ledger of SpecLock advances to this round
MaxLockTimeout == 3     \* lock timeout rounds range over 1..MaxLockTimeout

Preimages == {"P1", "P2"}

\* hashlib.sha256(bytes.fromhex(preimage_hex)).hexdigest()
sha256(preimage_hex) == IF preimage_hex = "P1" THEN "H1" ELSE "H2"

\* len(preimage_hex) == 64, and bytes.fromhex accepts it
PreimageLen64(p) == p \in Preimages \cup {"nothex"}
PreimageIsHex(p) == p \in Preimages \cup {"short"}

BuyerSecret == "P1"

\* the buyer's lock: the account and the timeout round its offer names,
\* the hash of its secret, the seller as claim-recipient
BuyerLock ==
    [ address |-> state.peer_hashlock,
      hash |-> sha256(BuyerSecret),
      recipient |-> Me,
      refund_address |-> Peer,
      timeout_round |-> state.peer_timeout ]

\* the seller's lock: the parameters generate_key was given, as
\* create_hashlock records them (the seller of SpecLock creates one lock)
SellerLock ==
    [ address |-> state.my_hashlock,
      hash |-> state.hash,
      recipient |-> Peer,
      refund_address |-> Me,
      timeout_round |-> state.my_timeout ]

\* a transaction that closes a lock out to `to`: a claim carries the
\* preimage as LogicSig argument, a refund carries none
Close(from_address, to, asa_id, arg, confirmed_round) ==
    [ from |-> from_address, to |-> to, asa |-> asa_id, amt |-> 0,
      arg |-> arg, round |-> confirmed_round ]

Closes == { x \in transfers : "arg" \in DOMAIN x }
Fundings == transfers \ Closes

\* the lock holds its asset: it was funded and nothing closed it out
LockOpen(lock) ==
    /\ lock.address # ""
    /\ \E x \in Fundings : x.to = lock.address
    /\ \A x \in Closes : x.from # lock.address

\* the lock program approves a claim
LedgerAcceptsClaim(lock, to, arg) ==
    /\ LockOpen(lock)
    /\ to = lock.recipient
    /\ arg # ""
    /\ sha256(arg) = lock.hash

\* the lock program approves a refund at round r
LedgerAcceptsRefund(lock, to, r) ==
    /\ LockOpen(lock)
    /\ to = lock.refund_address
    /\ r > lock.timeout_round

\* the claims of a lock that are confirmed, and the preimages they show
ClaimsOf(lock) == { x \in Closes : x.from = lock.address /\ x.arg # "" }
Revealed == { x.arg : x \in { y \in Closes : y.arg # "" } }

\* a claim check against the party's own lock instead of the peer's
claim_asa_error_own_lock(st, hashlock_address, recipient, preimage_hex, asa_id) ==
    IF st.peer_hashlock = "" THEN "no peer_hashlock"
    ELSE IF hashlock_address # st.my_hashlock THEN "hashlock_address"
    ELSE IF recipient # st.my_address THEN "recipient"
    ELSE IF ~_is_algo(asa_id) /\ asa_id # st.peer_asa_id THEN "asa_id"
    ELSE IF ~PreimageLen64(preimage_hex) THEN "preimage length"
    ELSE IF ~PreimageIsHex(preimage_hex) THEN "preimage hex"
    ELSE IF st.hash # "" /\ sha256(preimage_hex) # st.hash THEN "preimage hash"
    ELSE ""

\* the error tool_claim_hashlock_asa returns before it builds anything,
\* or ""
claim_hashlock_asa_error(st, hashlock_address, recipient, preimage_hex, asa_id) ==
    IF st.peer_hashlock = "" THEN "no peer_hashlock"
    ELSE IF hashlock_address # st.peer_hashlock THEN "hashlock_address"
    ELSE IF recipient # st.my_address THEN "recipient"
    ELSE IF ~_is_algo(asa_id) /\ asa_id # st.peer_asa_id THEN "asa_id"
    ELSE IF ~PreimageLen64(preimage_hex) THEN "preimage length"
    ELSE IF ~PreimageIsHex(preimage_hex) THEN "preimage hex"
    ELSE IF st.hash # "" /\ sha256(preimage_hex) # st.hash THEN "preimage hash"
    ELSE ""

\* One orchestrator step: dispatch_tool("claim_hashlock_asa", ...), then
\* save_state.  The close-out is confirmed and claim_txid recorded ("ok"),
\* or the signer or the node refuses it ("rejected"; the node refuses what
\* the lock program does not approve), or it was submitted and the wait
\* for its confirmation raises ("unconfirmed").
tool_claim_hashlock_asa(hashlock_address, recipient, preimage_hex, asa_id) ==
    /\ pc = "idle"
    /\ ret = NoRet
    /\ LET e == claim_hashlock_asa_error(state, hashlock_address, recipient,
                                         preimage_hex, asa_id) IN
       IF e # "" THEN
            /\ state' = state
            /\ transfers' = transfers
            /\ ret' = Ret("claim_hashlock_asa", "error", e, 0)
       ELSE \E outcome \in SubmitOutcomes :
            /\ outcome # "rejected" =>
                 LedgerAcceptsClaim(BuyerLock, recipient, preimage_hex)
            /\ Submit("claim_hashlock_asa",
                      Close(hashlock_address, recipient, asa_id, preimage_hex,
                            round), outcome)
            /\ state' = IF outcome = "ok"
                        THEN [state EXCEPT !.claim_txid = "claim"]
                        ELSE state
    /\ file' = save_state(state')
    /\ UNCHANGED <<round, index, pc, seen, keys, asmVars>>

\* _poll_hashlock_claim(hashlock_address, min_round): the transactions sent
\* from the lock at min-round or later that carry LogicSig arguments
poll_hashlock_claim(hashlock_address, min_round) ==
    { x \in Closes : /\ x.from = hashlock_address
                     /\ x.arg # ""
                     /\ x.round >= min_round }

\* the state after wait_for_preimage found the claim
preimage_discovered(st, claim) ==
    [st EXCEPT !.last_seen_round = Max(@, claim.round),
               !.preimage = claim.arg,
               !.status = "preimage_discovered"]

\* One orchestrator step: dispatch_tool("wait_for_preimage"), then
\* save_state.  The call ends with the claim a poll returns, or at its
\* deadline with an error when no poll returned one (nothing to find, or
\* the Indexer did not answer).
tool_wait_for_preimage ==
    /\ pc = "idle"
    /\ ret = NoRet
    /\ IF state.my_hashlock = "" THEN
            /\ state' = state
            /\ ret' = Ret("wait_for_preimage", "error", "no my_hashlock", 0)
       ELSE
            \/ /\ state' = state
               /\ ret' = Ret("wait_for_preimage", "error", "timeout", 0)
            \/ \E claim \in poll_hashlock_claim(state.my_hashlock,
                                                state.last_seen_round) :
                 /\ state' = preimage_discovered(state, claim)
                 /\ ret' = Ret("wait_for_preimage", "ok", claim.arg,
                               claim.round)
    /\ file' = save_state(state')
    /\ UNCHANGED <<round, index, pc, seen, keys, transfers, asmVars>>

\* the ledger confirms a round
TickLock ==
    /\ ret = NoRet
    /\ round < MaxLockRound
    /\ round' = round + 1
    /\ UNCHANGED <<state, file, index, pc, seen, ret, keys, transfers, asmVars>>

\* the buyer claims the seller's lock with its secret
BuyerClaim ==
    /\ ret = NoRet
    /\ LedgerAcceptsClaim(SellerLock, Peer, BuyerSecret)
    /\ transfers' = transfers \cup
         { Close(SellerLock.address, Peer, state.my_asa_id, BuyerSecret, round) }
    /\ UNCHANGED <<state, file, round, index, pc, seen, ret, keys, asmVars>>

\* the buyer takes its own lock back
BuyerRefund ==
    /\ ret = NoRet
    /\ LedgerAcceptsRefund(BuyerLock, Peer, round)
    /\ transfers' = transfers \cup
         { Close(BuyerLock.address, Peer, state.peer_asa_id, "", round) }
    /\ UNCHANGED <<state, file, round, index, pc, seen, ret, keys, asmVars>>

\* what the driver of the seller passes: any hash and timeout round for
\* its lock, the funding of it, and for a claim a preimage some claim has
\* shown on the ledger, a value that is no secret of the swap, or a
\* malformed one, on the peer's lock or its own, to itself or the peer, of
\* the peer's asset (ALGO: ASA_A is 0) or its own
LockCreateArgs ==
    { <<h, Peer, Me, t>> : h \in Hashes, t \in 1..MaxLockTimeout }

LockFundArgs == { <<Me, l, ASA_B, ASA_B_AMOUNT>> : l \in OwnLocks }

LockClaimArgs ==
    { <<PeerLock, Me, p, ASA_A>> : p \in Revealed \cup {"P2", "short"} }
    \cup { <<l, Me, p, ASA_A>> : l \in OwnLocks, p \in Revealed }
    \cup { <<PeerLock, Peer, p, ASA_A>> : p \in Revealed }
    \cup { <<PeerLock, Me, p, ASA_B>> : p \in Revealed }

\* the seller's session holds the buyer's offer (hash of the buyer's
\* secret, the buyer's lock and its timeout round Tb), and the buyer's
\* lock is funded
InitLock ==
    /\ round = 1
    /\ index = { [id |-> 1, round |-> 1] }
    /\ \E Tb \in 1..MaxLockTimeout :
         state = htlc_on_peer_note(
                    dedup_mark(SwapState("seller", 1),
                               [id |-> 1, round |-> 1, sender |-> Peer]),
                    "htlc_offer", Note("htlc_offer", "none", Tb)).st
    /\ file = save_state(state)
    /\ pc = "idle"
    /\ seen = {}
    /\ ret = NoRet
    /\ keys = {}
    /\ transfers = { Transfer(Peer, PeerLock, ASA_A, ASA_A_AMOUNT) }
    /\ AsmIdle

NextLock ==
    \/ TickLock
    \/ /\ state.my_hashlock = ""
       /\ \E a \in LockCreateArgs : tool_create_hashlock(a[1], a[2], a[3], a[4])
    \/ \E a \in LockFundArgs : tool_fund_hashlock_asa(a[1], a[2], a[3], a[4])
    \/ BuyerClaim
    \/ BuyerRefund
    \/ tool_wait_for_preimage
    \/ \E a \in LockClaimArgs : tool_claim_hashlock_asa(a[1], a[2], a[3], a[4])
    \/ next_turn

SpecLock == InitLock /\ [][NextLock]_vars

\* the seller's claim on the buyer's lock with the preimage p can be
\* submitted and confirmed: the tool's checks pass and the lock program
\* approves it
SellerClaimEnabled(p) ==
    /\ claim_hashlock_asa_error(state, BuyerLock.address, Me, p,
                                state.peer_asa_id) = ""
    /\ LedgerAcceptsClaim(BuyerLock, Me, p)

SellerClaimed == ClaimsOf(BuyerLock) # {}

BuyerRefundEnabled == LedgerAcceptsRefund(BuyerLock, Peer, round)

BuyerRefunds == { x \in Closes : x.from = BuyerLock.address /\ x.arg = "" }

\* the buyer's claims on the seller's lock confirmed before the seller's
\* timeout round Ts, that being below the buyer's timeout round Tb
EarlyBuyerClaims ==
    { c \in ClaimsOf(SellerLock) :
        /\ SellerLock.timeout_round < BuyerLock.timeout_round
        /\ c.round < SellerLock.timeout_round }

-----------------------------------------------------------------------------
(* The polling tools (SpecPoll): wait_for_message and wait_for_preimage of *)
(* an HTLC session, on its message channel and in the phase in which the   *)
(* locks are funded, and wait_for_message and wait_for_asa_transfer of a   *)
(* generic swap session.                                                   *)

\* the locks of the swap are funded (then transfers is never empty)
InLockPhase == IsHtlcSession /\ transfers # {}

NextPoll ==
    \/ /\ IsHtlcSession
       /\ ~InLockPhase
       /\ (Next \/ tool_wait_for_preimage)
    \/ /\ InLockPhase
       /\ NextLock
    \/ /\ IsSwapSession
       /\ \/ NextSwap
          \/ ConfirmTransfer
          \/ \E a \in AsaArgs : tool_wait_for_asa_transfer(a)

SpecPoll == (Init \/ InitLock \/ InitSwap) /\ [][NextPoll]_vars

PollingOps == {"wait_for_message", "wait_for_asa_transfer", "wait_for_preimage"}

\* the fields of a session but the dedup bookkeeping
ProtocolFields(st) ==
    [ k \in DOMAIN st \ {"seen_txids", "last_seen_round"} |-> st[k] ]

\* the step ends a polling call that took an item from a poll: a message
\* of the peer (HTLC), a message (swap), a claim or a transfer
TookItem ==
    \/ /\ pc = "wait_for_message"
       /\ IsHtlcSession
       /\ \E txn \in index, note \in Notes :
             htlc_wait_step(txn, state.peer_address, note)
    \/ /\ pc = "wait_for_message"
       /\ IsSwapSession
       /\ \E txn \in index, sender \in Senders, note \in SwapNotes :
             swap_wait_step(txn, sender, note)
    \/ /\ ret'.op = "wait_for_preimage"
       /\ \E claim \in poll_hashlock_claim(state.my_hashlock,
                                           state.last_seen_round) :
             state' = preimage_discovered(state, claim)
    \/ /\ ret'.op = "wait_for_asa_transfer"
       /\ \E incoming \in transfers :
             state' = asa_transfer_detected(state, incoming)

\* the call is refused before its first poll
RefusedBeforePolling ==
    \/ ret' = Ret("wait_for_preimage", "error", "no my_hashlock", 0)
    \/ ret' = Ret("wait_for_asa_transfer", "raise", "int", 0)


-----------------------------------------------------------------------------
(* tool_send_note of both examples (SpecNote).                             *)
(* note_json is a dict: a sequence of entries in insertion order, each a   *)
(* key and the JSON text of its value (its leading characters and its      *)
(* length in bytes).  The bytes json.dumps(..., separators=(",", ":"))     *)
(* writes keep the entries in that order; their length is computed.        *)

NoteLimit == 1024

\* a string value: json.dumps writes it between quotes
StrVal(str) == [text |-> str, vlen |-> Len(str) + 2]

\* a string value of n characters that stands for the rest of a note
PadVal(n) == [text |-> "pad", vlen |-> n + 2]

DictEntry(key, val) == [key |-> key, text |-> val.text, vlen |-> val.vlen]

\* a dict, or a value that is no dict (a JSON string)
Dict(entries) == [is_dict |-> TRUE, entries |-> entries]
NoDict == [is_dict |-> FALSE, entries |-> << >>]

RECURSIVE entries_len(_)
entries_len(entries) ==
    IF entries = << >> THEN 0
    ELSE Len(entries[1].key) + 2 + 1 + entries[1].vlen
         + (IF Len(entries) > 1 THEN 1 ELSE 0)
         + entries_len(Tail(entries))

\* json.dumps(note_json, separators=(",", ":")).encode("utf-8")
json_dumps(note_json) ==
    [ entries |-> note_json.entries,
      len |-> IF note_json.is_dict THEN 2 + entries_len(note_json.entries)
              ELSE 2 ]

has_key(note_json, key) ==
    \E i \in DOMAIN note_json.entries : note_json.entries[i].key = key

\* note_json.get("type", "?") if isinstance(note_json, dict) else "?"
msg_type_of(note_json) ==
    IF note_json.is_dict /\ has_key(note_json, "type")
    THEN LET i == CHOOSE i \in DOMAIN note_json.entries :
                     note_json.entries[i].key = "type"
         IN note_json.entries[i].text
    ELSE "?"

IsTypeEntry(e) == e.key = "type"
IsOtherEntry(e) == e.key # "type"

\* the canonical dict of the HTLC tool: "type" first, then the other keys
\* in their order
canonical(note_json) ==
    IF has_key(note_json, "type")
    THEN Dict(SelectSeq(note_json.entries, IsTypeEntry)
              \o SelectSeq(note_json.entries, IsOtherEntry))
    ELSE note_json

\* the note-prefix filter of a poll: the bytes begin with {"type":"htlc_
\* (or "swap_)
note_prefix_matches(bytes, family) ==
    /\ bytes.entries # << >>
    /\ bytes.entries[1].key = "type"
    /\ bytes.entries[1].text \in family

\* the 0-ALGO payment that carries the note
NoteTxn(sender, receiver, bytes) ==
    [from |-> sender, to |-> receiver, asa |-> 0, amt |-> 0, note |-> bytes]

Notes_sent == { x \in transfers : "note" \in DOMAIN x }

\* the error the HTLC tool returns before it builds anything, or ""
send_note_error(st, sender, receiver, note_json) ==
    IF sender # st.my_address THEN "sender"
    ELSE IF receiver # st.peer_address THEN "receiver"
    ELSE IF ~note_json.is_dict THEN "note_json"
    ELSE ""

\* the status after the note is confirmed (HTLC)
send_note_status(st, msg_type) ==
    IF msg_type = "htlc_offer" THEN [st EXCEPT !.status = "offer_sent"]
    ELSE IF msg_type = "htlc_accept" THEN [st EXCEPT !.status = "accept_sent"]
    ELSE st

\* a size check that also refuses a note of exactly the limit
NoteTooLong_inclusive(bytes) == bytes.len >= NoteLimit

\* len(note_bytes) > 1024
NoteTooLong(bytes) == bytes.len > NoteLimit

\* One orchestrator step: dispatch_tool("send_note", ...), then
\* save_state.  get_signer or suggested_params may raise before the size
\* check ("node"); a note that is too long is refused; otherwise the
\* payment is signed, submitted and confirmed (Submit).
tool_send_note(sender, receiver, note_json) ==
    /\ pc = "idle"
    /\ ret = NoRet
    /\ LET e == send_note_error(state, sender, receiver, note_json)
           bytes == json_dumps(canonical(note_json))
       IN
       IF e # "" THEN
            /\ state' = state
            /\ transfers' = transfers
            /\ ret' = Ret("send_note", "error", e, 0)
       ELSE
            \/ /\ state' = state
               /\ transfers' = transfers
               /\ ret' = Ret("send_note", "raise", "node", 0)
            \/ /\ NoteTooLong(bytes)
               /\ state' = state
               /\ transfers' = transfers
               /\ ret' = Ret("send_note", "error", "note size", 0)
            \/ /\ ~NoteTooLong(bytes)
               /\ \E outcome \in SubmitOutcomes :
                    /\ Submit("send_note", NoteTxn(sender, receiver, bytes),
                              outcome)
                    /\ state' = IF outcome = "ok"
                                THEN send_note_status(state,
                                        msg_type_of(canonical(note_json)))
                                ELSE state
    /\ file' = save_state(state')
    /\ UNCHANGED <<round, index, pc, seen, keys, asmVars>>

\* the error the swap tool returns before it builds anything, or ""
swap_send_note_error(st, sender, receiver) ==
    IF sender # st.my_address THEN "sender"
    ELSE IF receiver # st.peer_address THEN "receiver"
    ELSE ""

\* the status after the note is confirmed (generic swap)
swap_send_note_status(st, msg_type) ==
    IF msg_type = "swap_propose" THEN [st EXCEPT !.status = "propose_sent"]
    ELSE IF msg_type = "swap_partial" THEN [st EXCEPT !.status = "partial_sent"]
    ELSE st

\* One call of send_note of the generic swap and the save of the session:
\* the note is serialized as the caller passed it.
swap_send_note(sender, receiver, note_json) ==
    /\ pc = "idle"
    /\ ret = NoRet
    /\ LET e == swap_send_note_error(state, sender, receiver)
           bytes == json_dumps(note_json)
       IN
       IF e # "" THEN
            /\ state' = state
            /\ transfers' = transfers
            /\ ret' = Ret("send_note", "error", e, 0)
       ELSE
            \/ /\ state' = state
               /\ transfers' = transfers
               /\ ret' = Ret("send_note", "raise", "node", 0)
            \/ /\ NoteTooLong(bytes)
               /\ state' = state
               /\ transfers' = transfers
               /\ ret' = Ret("send_note", "error", "note size", 0)
            \/ /\ ~NoteTooLong(bytes)
               /\ \E outcome \in SubmitOutcomes :
                    /\ Submit("send_note", NoteTxn(sender, receiver, bytes),
                              outcome)
                    /\ state' = IF outcome = "ok"
                                THEN swap_send_note_status(state,
                                        msg_type_of(note_json))
                                ELSE state
    /\ file' = state'
    /\ UNCHANGED <<round, index, pc, seen, keys, asmVars>>


\* One orchestrator step: dispatch_tool("complete_swap"), then save_state
tool_complete_swap ==
    /\ pc = "idle"
    /\ ret = NoRet
    /\ state' = [state EXCEPT !.status = "complete"]
    /\ ret' = Ret("complete_swap", "ok", "complete", 0)
    /\ file' = save_state(state')
    /\ UNCHANGED <<round, index, pc, seen, keys, transfers, asmVars>>

MaxSent == 2

SentTypes == {"htlc_offer", "htlc_accept", "swap_propose", "swap_partial"}

\* serialized lengths around the limit, and a short note
NoteSizes == {40, NoteLimit - 1, NoteLimit, NoteLimit + 1}

\* the padding that gives {"type":"<type>","pad":"<padding>"} the length
\* total: 2 braces, 1 comma, "type": (7), "pad": (6), 4 quotes
PadFor(type, total) == total - 20 - Len(type)

\* the notes a caller passes: type first, type last, no type, no dict
NoteJsons ==
    { Dict(<<DictEntry("type", StrVal(type)),
             DictEntry("pad", PadVal(PadFor(type, total)))>>) :
        type \in SentTypes, total \in NoteSizes }
    \cup
    { Dict(<<DictEntry("pad", PadVal(PadFor(type, total))),
             DictEntry("type", StrVal(type))>>) :
        type \in SentTypes, total \in NoteSizes }
    \cup { Dict(<<DictEntry("pad", PadVal(4))>>), NoDict }

SendNoteArgs ==
    { [sender |-> a[1], receiver |-> a[2], note_json |-> n] :
        a \in {<<Me, Peer>>, <<Peer, Me>>, <<Me, Mallory>>}, n \in NoteJsons }

NextNote ==
    \/ /\ IsHtlcSession
       /\ Cardinality(Notes_sent) < MaxSent
       /\ \E a \in SendNoteArgs :
            tool_send_note(a.sender, a.receiver, a.note_json)
    \/ /\ IsSwapSession
       /\ Cardinality(Notes_sent) < MaxSent
       /\ \E a \in SendNoteArgs :
            swap_send_note(a.sender, a.receiver, a.note_json)
    \/ IsHtlcSession /\ tool_complete_swap
    \/ next_turn

SpecNote == (Init \/ InitSwap) /\ [][NextNote]_vars

\* the bytes send_note serializes for a call, in the session at hand
SerializedNote(note_json) ==
    IF IsHtlcSession THEN json_dumps(canonical(note_json))
    ELSE json_dumps(note_json)

SendNoteStep(a) ==
    \/ IsHtlcSession /\ tool_send_note(a.sender, a.receiver, a.note_json)
    \/ IsSwapSession /\ swap_send_note(a.sender, a.receiver, a.note_json)

\* C12: send_note of either example refuses a note whose compact
\* serialization is longer than 1024 bytes: the call ends with an error
\* result (or with the failure of the node or signer that precedes the size
\* check), no transaction is submitted and the session, its status
\* included, stays as it was.  A note of exactly 1024 bytes is never refused
\* for its size.
C12_NoteSizeLimit ==
    [][ \A a \in SendNoteArgs :
          SendNoteStep(a) =>
            /\ SerializedNote(a.note_json).len > NoteLimit =>
                 /\ \/ ret'.res = "error"
                    \/ ret' = Ret("send_note", "raise", "node", 0)
                 /\ ( /\ a.sender = state.my_address
                      /\ a.receiver = state.peer_address
                      /\ a.note_json.is_dict
                      /\ ret'.res = "error" ) => ret'.what = "note size"
                 /\ transfers' = transfers
                 /\ state' = state
                 /\ file' = state
            /\ SerializedNote(a.note_json).len <= NoteLimit =>
                 ret'.what # "note size"
      ]_vars

\* a note of exactly 1024 bytes was sent and a later, longer one is refused
C12_Witness ==
    /\ \E x \in Notes_sent : x.note.len = NoteLimit
    /\ ret = Ret("send_note", "error", "note size", 0)
    /\ state.status \in {"offer_sent", "propose_sent"}


\* C13: in both examples every note send_note has submitted that contains
\* a "type" key is serialized with "type" as its first key, whatever the
\* order the caller supplied, so that its bytes begin with {"type":"swap_
\* or {"type":"htlc_ and the note-prefix filter of the peer's poll finds it.
C13_TypeFirst ==
    \A x \in Notes_sent :
        has_key(Dict(x.note.entries), "type") =>
            /\ x.note.entries[1].key = "type"
            /\ note_prefix_matches(x.note, HtlcTypes \cup SwapTypes)


-----------------------------------------------------------------------------
(* The proposal hash of the generic swap.                                  *)
(* A term as a caller passes it is a number written as an int or as a      *)
(* numeric string, or a string that is no number; int() maps the first two *)
(* to the number and raises on the third.                                  *)

IntForm(n) == [n |-> n, form |-> "int"]
StrForm(n) == [n |-> n, form |-> "str"]
NotANumber == [n |-> 0, form |-> "bad"]

\* int(v) raises ValueError
int_raises(v) == v.form = "bad"

\* int(v)
int(v) == v.n

\* the dict literal of _proposal_hash, in the order it is written
proposal_dict(buyer_addr, seller_addr, offer_asa, offer_amount, want_asa, want_amount) ==
    << [key |-> "buyer", val |-> buyer_addr],
       [key |-> "seller", val |-> seller_addr],
       [key |-> "offer_asa", val |-> int(offer_asa)],
       [key |-> "offer_amount", val |-> int(offer_amount)],
       [key |-> "want_asa", val |-> int(want_asa)],
       [key |-> "want_amount", val |-> int(want_amount)] >>

\* the place of each key in the order of Python's string comparison
KeyRank ==
    [ buyer |-> 1, offer_amount |-> 2, offer_asa |-> 3, seller |-> 4,
      want_amount |-> 5, want_asa |-> 6 ]

KeyBefore(a, b) == KeyRank[a.key] < KeyRank[b.key]

\* a serialization that keeps the order of insertion
dumps_unsorted(dict) == dict

\* json.dumps(dict, sort_keys=True, separators=(",", ":")): the entries in
\* the order of their keys
dumps_sort_keys(dict) == SortSeq(dict, KeyBefore)

\* hashlib.sha256(canonical.encode()).hexdigest()[:16], taken as free of
\* collisions: the digest stands for the text it was computed from
sha256_16(text) == [digest |-> text]

\* no hash: the "" of swap_box_name and of a missing proposal_hash
NoHash == [digest |-> << >>]

proposal_hash_of_dict(dict) == sha256_16(dumps_sort_keys(dict))

_proposal_hash(buyer_addr, seller_addr, offer_asa, offer_amount, want_asa, want_amount) ==
    proposal_hash_of_dict(proposal_dict(buyer_addr, seller_addr, offer_asa,
                                        offer_amount, want_asa, want_amount))

\* expected_hash of tool_verify_and_submit_swap: the hash of the session's
\* own terms, the session being the buyer
expected_hash(st) ==
    _proposal_hash(st.my_address, st.peer_address,
                   IntForm(st.my_asa_id), IntForm(st.my_asa_amount),
                   IntForm(st.peer_asa_id), IntForm(st.peer_asa_amount))

\* prop_hash of tool_build_and_sign_swap once its checks have passed: the
\* session being the seller, the buyer's terms are the peer's
seller_prop_hash(st) ==
    _proposal_hash(st.peer_address, st.my_address,
                   IntForm(st.peer_asa_id), IntForm(st.peer_asa_amount),
                   IntForm(st.my_asa_id), IntForm(st.my_asa_amount))


-----------------------------------------------------------------------------
(* The Exchange Store (box_exchange.py).                                   *)
(* A payload is a sequence of bytes.  zlib is taken as a framing that      *)
(* decompress inverts: two header bytes, the data, and the length of the   *)
(* data in four bytes; the length of the compressed bytes therefore        *)
(* differs from the length of the payload, as it does with zlib.           *)

CHUNK_SIZE == 2000
PREFIX_SIZE == 160
BOX_MBR_BASE == 2500
BOX_MBR_PER_BYTE == 400

\* the MBR of a box without the bytes of its name
_box_mbr_value_only(name_len, value_len) ==
    BOX_MBR_BASE + BOX_MBR_PER_BYTE * value_len

\* _box_mbr
_box_mbr(name_len, value_len) ==
    BOX_MBR_BASE + BOX_MBR_PER_BYTE * (name_len + value_len)

ZlibHeader == <<120, 156>>

\* n as four bytes, big-endian
be32(n) ==
    << (n \div 16777216) % 256, (n \div 65536) % 256, (n \div 256) % 256,
       n % 256 >>

\* zlib.compress(data)
zlib_compress(data) == ZlibHeader \o data \o be32(Len(data))

\* zlib.decompress(raw) raises zlib.error
zlib_raises(raw) ==
    \/ Len(raw) < 6
    \/ SubSeq(raw, 1, 2) # ZlibHeader
    \/ SubSeq(raw, Len(raw) - 3, Len(raw)) # be32(Len(raw) - 6)

\* zlib.decompress(raw)
zlib_decompress(raw) == SubSeq(raw, 3, Len(raw) - 4)

\* range(0, size, CHUNK_SIZE)
ChunkOffsets(size) ==
    [ k \in 1..((size + CHUNK_SIZE - 1) \div CHUNK_SIZE) |->
        (k - 1) * CHUNK_SIZE ]

\* compressed[offset:offset + CHUNK_SIZE]
Chunk(compressed, offset) ==
    SubSeq(compressed, offset + 1,
           IF offset + CHUNK_SIZE < Len(compressed) THEN offset + CHUNK_SIZE
           ELSE Len(compressed))

\* a write that sends only the first chunk
write_txns_first_only(compressed) ==
    IF compressed = << >> THEN << >>
    ELSE << [kind |-> "write", offset |-> 0, chunk |-> Chunk(compressed, 0)] >>

\* the write calls of write_box, one per chunk
write_txns(compressed) ==
    [ k \in DOMAIN ChunkOffsets(Len(compressed)) |->
        [ kind |-> "write", offset |-> ChunkOffsets(Len(compressed))[k],
          chunk |-> Chunk(compressed, ChunkOffsets(Len(compressed))[k]) ] ]

\* transaction.logic.get_application_address(app_id)
get_application_address(app_id) == [app_addr |-> app_id]

\* the group write_box builds: MBR payment, create, write chunks
write_box_txns(app_id, sender, name_len, data, acl_addrs) ==
    LET compressed == zlib_compress(data)
        box_size == Len(compressed) + PREFIX_SIZE
    IN  << [kind |-> "pay", receiver |-> get_application_address(app_id),
            amt |-> _box_mbr(name_len, box_size)],
           [kind |-> "create", index |-> app_id, size |-> box_size,
            accounts |-> acl_addrs] >>
        \o write_txns(compressed)

\* auth_addresses = [sender] * len(txns): the signer is asked to sign every
\* transaction of the group for the sender
write_box_auth_addresses(sender, txns) == [ k \in DOMAIN txns |-> sender ]


(* The box contract on the ledger, as the protocol describes it: a box has *)
(* a 160-byte prefix (creator and four ACL slots of 32 bytes, zero-filled  *)
(* when unused) followed by the bytes written; creating an existing box    *)
(* fails; only the creator and the ACL addresses write or delete.          *)

ZeroSlot == "zero"

\* the owner of prefix byte i: the creator, an ACL address or nobody
PrefixSlot(creator, acl_addrs, i) ==
    LET slot == (i - 1) \div 32 IN
    IF slot = 0 THEN creator
    ELSE IF slot <= Len(acl_addrs) THEN acl_addrs[slot]
    ELSE ZeroSlot

BoxPrefix(creator, acl_addrs) ==
    [ i \in 1..PREFIX_SIZE |-> PrefixSlot(creator, acl_addrs, i) ]

BoxKeys(bxs) == { <<b.app, b.name>> : b \in bxs }

HasBox(bxs, app_id, box_name) == <<app_id, box_name>> \in BoxKeys(bxs)

BoxAt(bxs, app_id, box_name) ==
    CHOOSE b \in bxs : b.app = app_id /\ b.name = box_name

Authorized(box, sender) == sender \in Range(SubSeq(box.value, 1, PREFIX_SIZE))

\* "create": a box of `size` bytes, the prefix filled in
contract_create(app_id, box_name, sender, txn) ==
    [ app |-> app_id, name |-> box_name,
      value |-> BoxPrefix(sender, txn.accounts)
                \o [ i \in 1..(txn.size - PREFIX_SIZE) |-> 0 ] ]

contract_write_fails(box, sender, txn) ==
    \/ ~Authorized(box, sender)
    \/ PREFIX_SIZE + txn.offset + Len(txn.chunk) > Len(box.value)

\* "write": the chunk replaces the bytes at PREFIX_SIZE + offset
contract_write(box, txn) ==
    [ box EXCEPT !.value =
        [ i \in 1..Len(@) |->
            IF /\ i > PREFIX_SIZE + txn.offset
               /\ i <= PREFIX_SIZE + txn.offset + Len(txn.chunk)
            THEN txn.chunk[i - PREFIX_SIZE - txn.offset]
            ELSE @[i] ] ]

\* the calls of a group from the k-th on, applied to the box: the box at
\* the end, or NoBox when a call fails
NoBox == [app |-> 0, name |-> NoHash, value |-> << >>]

RECURSIVE apply_writes(_, _, _, _)
apply_writes(box, sender, txns, k) ==
    IF k > Len(txns) THEN box
    ELSE IF contract_write_fails(box, sender, txns[k]) THEN NoBox
    ELSE apply_writes(contract_write(box, txns[k]), sender, txns, k + 1)

\* the boxes after the atomic group of write_box, or the same boxes when
\* the ledger rejects the group
apply_group(bxs, app_id, box_name, sender, txns) ==
    IF HasBox(bxs, app_id, box_name) THEN bxs
    ELSE LET box == apply_writes(contract_create(app_id, box_name, sender,
                                                 txns[2]),
                                 sender, txns, 3)
         IN  IF box = NoBox THEN bxs ELSE bxs \cup {box}

\* "delete"
contract_delete(bxs, app_id, box_name, sender) ==
    IF /\ HasBox(bxs, app_id, box_name)
       /\ Authorized(BoxAt(bxs, app_id, box_name), sender)
    THEN bxs \ {BoxAt(bxs, app_id, box_name)}
    ELSE bxs

\* len(box_name): a box is named by the 16 hex digits of a proposal hash
BoxNameLen == 16

\* the boxes after write_box whose group the ledger has executed: a stale
\* box is deleted first (a failure of that is swallowed), then the group
boxes_after_write(bxs, app_id, sender, box_name, data, acl_addrs) ==
    apply_group(contract_delete(bxs, app_id, box_name, sender),
                app_id, box_name, sender,
                write_box_txns(app_id, sender, BoxNameLen, data, acl_addrs))

\* read_box raises: no such box, or the bytes after the prefix are no zlib
read_box_raises(bxs, app_id, box_name) ==
    IF ~HasBox(bxs, app_id, box_name) THEN TRUE
    ELSE LET raw == BoxAt(bxs, app_id, box_name).value IN
         zlib_raises(SubSeq(raw, PREFIX_SIZE + 1, Len(raw)))

\* zlib.decompress(raw[PREFIX_SIZE:])
read_box_value(bxs, app_id, box_name) ==
    LET raw == BoxAt(bxs, app_id, box_name).value IN
    zlib_decompress(SubSeq(raw, PREFIX_SIZE + 1, Len(raw)))


\* The ways one call of write_box ends, each with the boxes it leaves.  A
\* box found under the name is deleted first; when that deletion fails
\* (the signer or the contract refuses it) the exception is swallowed and
\* the box stays.  Then the group is signed and submitted: the signer or
\* the node refuses it ("rejected": nothing reached the contract), the
\* contract refuses the create call because the box is there ("box
\* exists"), or the ledger executes the group and the call returns ("ok")
\* or the wait for the confirmation raises ("unconfirmed").
write_box_outcomes(bxs, app_id, sender, box_name, data, acl_addrs) ==
    LET kept == IF HasBox(bxs, app_id, box_name)
                THEN {bxs, contract_delete(bxs, app_id, box_name, sender)}
                ELSE {bxs}
        txns == write_box_txns(app_id, sender, BoxNameLen, data, acl_addrs)
    IN  UNION {
          {[boxes |-> d, res |-> "raise", what |-> "rejected"]} \cup
          ( IF HasBox(d, app_id, box_name)
            THEN {[boxes |-> d, res |-> "raise", what |-> "box exists"]}
            ELSE { [boxes |-> apply_group(d, app_id, box_name, sender, txns),
                    res |-> r[1], what |-> r[2]] :
                   r \in {<<"ok", "">>, <<"raise", "unconfirmed">>} } )
          : d \in kept }

\* write_box; the result is kept with the size of the payload of the call
write_box(app_id, sender, box_name, data, acl_addrs) ==
    /\ pc = "idle"
    /\ ret = NoRet
    /\ \E o \in write_box_outcomes(boxes, app_id, sender, box_name, data,
                                   acl_addrs) :
         /\ boxes' = o.boxes
         /\ ret' = Ret("write_box", o.res, o.what, Len(data))
    /\ UNCHANGED <<_key_cache, tunnel, signed_lists, merged, state, file, round, index, pc, seen,
                   keys, transfers>>

\* read_box: a query, no transaction
read_box(app_id, box_name) ==
    /\ pc = "idle"
    /\ ret = NoRet
    /\ ret' = IF read_box_raises(boxes, app_id, box_name)
              THEN Ret("read_box", "raise", "box", 0)
              ELSE Ret("read_box", "ok", "",
                       read_box_value(boxes, app_id, box_name))
    /\ UNCHANGED <<_key_cache, tunnel, signed_lists, merged, boxes, state, file, round, index, pc,
                   seen, keys, transfers>>

\* delete_box: the call raises when the contract refuses
delete_box(app_id, sender, box_name) ==
    /\ pc = "idle"
    /\ ret = NoRet
    /\ \/ /\ boxes' = boxes
          /\ ret' = Ret("delete_box", "raise", "rejected", 0)
       \/ /\ HasBox(boxes, app_id, box_name)
          /\ Authorized(BoxAt(boxes, app_id, box_name), sender)
          /\ boxes' = contract_delete(boxes, app_id, box_name, sender)
          /\ ret' = Ret("delete_box", "ok", "", 0)
    /\ UNCHANGED <<_key_cache, tunnel, signed_lists, merged, state, file, round, index, pc, seen,
                   keys, transfers>>

MaxBoxes == 1

\* the payload sizes: empty, one byte, around one chunk, several chunks with
\* a last partial one, and the size whose compressed bytes fill one chunk
PayloadSizes ==
    { 0, 1, CHUNK_SIZE - 6, CHUNK_SIZE - 1, CHUNK_SIZE, CHUNK_SIZE + 1,
      3 * CHUNK_SIZE + 7 }

Payload(n) == [ i \in 1..n |-> (7 * i) % 256 ]

Payloads == { Payload(n) : n \in PayloadSizes }

StoreNames == { sha256_16(<<n>>) : n \in 1..MaxBoxes }

\* either party writes with the ACL of tool_build_and_sign_swap, a third
\* party with none
WriteBoxArgs ==
    { [sender |-> s[1], name |-> b, data |-> d, acl |-> s[2]] :
        s \in {<<Me, <<Me, Peer>>>>, <<Peer, <<Peer, Me>>>>,
               <<Mallory, << >>>>},
        b \in StoreNames,
        d \in Payloads }

InitStore ==
    /\ InitSwap
    /\ state = swap_SwapState("seller", 0)

NextStore ==
    \/ \E a \in WriteBoxArgs :
         write_box(SwapAppId, a.sender, a.name, a.data, a.acl)
    \/ \E b \in StoreNames : read_box(SwapAppId, b)
    \/ \E s \in {Me, Peer, Mallory}, b \in StoreNames :
         delete_box(SwapAppId, s, b)
    \/ next_turn

SpecStore == InitStore /\ [][NextStore]_vars

RECURSIVE JoinChunks(_)
JoinChunks(txns) ==
    IF txns = << >> THEN << >> ELSE txns[1].chunk \o JoinChunks(Tail(txns))

\* C20: for payloads of 0, 1, CHUNK_SIZE - 1, CHUNK_SIZE, CHUNK_SIZE + 1 and
\* 3 * CHUNK_SIZE + 7 bytes, read_box after a write_box that returned gives
\* the payload back; the chunks written are at the offsets 0, CHUNK_SIZE,
\* 2 * CHUNK_SIZE, ... and cover the compressed payload exactly once and in
\* order; the box holds the 160-byte prefix and then the compressed
\* payload, and read_box strips exactly that prefix.
C20_StoreRoundTrip ==
    [][ \A a \in WriteBoxArgs :
          ( /\ ret' = Ret("write_box", "ok", "", Len(a.data))
            /\ write_box(SwapAppId, a.sender, a.name, a.data, a.acl) ) =>
          LET compressed == zlib_compress(a.data)
              writes == write_txns(compressed)
              value == BoxAt(boxes', SwapAppId, a.name).value
          IN  /\ HasBox(boxes', SwapAppId, a.name)
              /\ ~read_box_raises(boxes', SwapAppId, a.name)
              /\ read_box_value(boxes', SwapAppId, a.name) = a.data
              /\ \A k \in DOMAIN writes :
                    /\ writes[k].offset = (k - 1) * CHUNK_SIZE
                    /\ Len(writes[k].chunk) > 0
                    /\ Len(writes[k].chunk) <= CHUNK_SIZE
                    /\ k < Len(writes) => Len(writes[k].chunk) = CHUNK_SIZE
              /\ JoinChunks(writes) = compressed
              /\ Len(value) = PREFIX_SIZE + Len(compressed)
              /\ SubSeq(value, 1, PREFIX_SIZE) = BoxPrefix(a.sender, a.acl)
              /\ SubSeq(value, PREFIX_SIZE + 1, Len(value)) = compressed
      ]_vars

\* the largest payload was written in four chunks and read back
C20_Witness ==
    /\ ret.op = "read_box"
    /\ ret.res = "ok"
    /\ ret.arg = Payload(3 * CHUNK_SIZE + 7)
    /\ Len(write_txns(zlib_compress(ret.arg))) = 4

\* the group of a write_box call that submitted one
GroupOf(a) ==
    write_box_txns(SwapAppId, a.sender, BoxNameLen, a.data, a.acl)

Submitted(a) ==
    /\ ret'.op = "write_box"
    /\ ret'.what \in {"", "unconfirmed"}
    /\ ret'.arg = Len(a.data)
    /\ write_box(SwapAppId, a.sender, a.name, a.data, a.acl)

\* ceil(n / CHUNK_SIZE): the least c with c * CHUNK_SIZE >= n
CeilChunks(n) ==
    CHOOSE c \in 0..(n \div CHUNK_SIZE + 1) : c * CHUNK_SIZE >= n /\ (c = 0 \/ (c - 1) * CHUNK_SIZE < n)

\* the composition of the group, for a payload whose stored (compressed)
\* size is `stored`
GroupComposed(a, stored) ==
    LET txns == GroupOf(a) IN
    /\ Len(txns) = 2 + CeilChunks(stored)
    /\ txns[1].kind = "pay"
    /\ txns[1].receiver = get_application_address(SwapAppId)
    /\ txns[1].amt = 2500 + 400 * (BoxNameLen + stored + 160)
    /\ txns[2].kind = "create"
    /\ txns[2].size = stored + 160
    /\ \A k \in 3..Len(txns) :
          /\ txns[k].kind = "write"
          /\ Len(txns[k].chunk) =
               IF k < Len(txns) THEN CHUNK_SIZE
               ELSE stored - (Len(txns) - 3) * CHUNK_SIZE
          /\ Len(txns[k].chunk) \in 1..CHUNK_SIZE
    /\ write_box_auth_addresses(a.sender, txns) = [ k \in 1..Len(txns) |-> a.sender ]
    /\ HasBox(boxes', SwapAppId, a.name)
    /\ Len(BoxAt(boxes', SwapAppId, a.name).value) = stored + 160

\* C21 as stated: write_box submits one group of, in this order, a payment
\* of 2500 + 400 * (name length + stored size + 160) to the application
\* address, a create call of size stored size + 160 and
\* ceil(stored size / CHUNK_SIZE) write calls of CHUNK_SIZE bytes but for a
\* possibly shorter last one, all signed for the sender; a zero-length
\* payload creates the box and yields no write call.
C21_GroupZeroChunks ==
    [][ \A a \in WriteBoxArgs :
          Submitted(a) =>
            /\ GroupComposed(a, Len(zlib_compress(a.data)))
            /\ a.data = << >> => Len(GroupOf(a)) = 2
      ]_vars

\* C21, amended: the same composition over the stored size, which is the
\* size of the compressed payload and never zero: a zero-length payload
\* creates the box and yields one write call that carries its whole
\* compressed form.
C21_GroupComposition ==
    [][ \A a \in WriteBoxArgs :
          Submitted(a) =>
            /\ GroupComposed(a, Len(zlib_compress(a.data)))
            /\ a.data = << >> =>
                  /\ Len(GroupOf(a)) = 3
                  /\ GroupOf(a)[3].chunk = zlib_compress(<< >>)
      ]_vars

\* write_box has returned and the box holds the empty payload, written in
\* one chunk
C21_Witness ==
    /\ ret.op = "write_box"
    /\ ret.res = "ok"
    /\ \E b \in boxes :
          Len(b.value) = PREFIX_SIZE + Len(zlib_compress(<< >>))

\* a step of write_box with the arguments a
WriteStep(a) ==
    /\ ret'.op = "write_box"
    /\ ret'.arg = Len(a.data)
    /\ write_box(SwapAppId, a.sender, a.name, a.data, a.acl)

\* the box of that name holds the prefix of the writer and the compressed
\* payload, and nothing else
HoldsExactly(bxs, a) ==
    /\ HasBox(bxs, SwapAppId, a.name)
    /\ BoxAt(bxs, SwapAppId, a.name).value =
         BoxPrefix(a.sender, a.acl) \o zlib_compress(a.data)

\* a write that returned replaced what was under the name, and writing the
\* same name and payload once more would leave the same boxes
WriteReplaces ==
    [][ \A a \in WriteBoxArgs :
          (WriteStep(a) /\ ret'.res = "ok") =>
            /\ HoldsExactly(boxes', a)
            /\ \A o \in write_box_outcomes(boxes', SwapAppId, a.sender, a.name,
                                           a.data, a.acl) :
                  o.res = "ok" => o.boxes = boxes'
      ]_vars

\* C22: write_box on a name that holds a box deletes it before creating: a
\* write that returned leaves the box holding exactly the new payload,
\* writing the same name and payload twice leaves the boxes of writing it
\* once, and no write submits its create call while a stale box that it
\* failed to delete is still there.
C22_IdempotentCreate ==
    [][ \A a \in WriteBoxArgs :
          WriteStep(a) =>
            /\ ret'.res = "ok" =>
                  /\ HoldsExactly(boxes', a)
                  /\ \A o \in write_box_outcomes(boxes', SwapAppId, a.sender,
                                                 a.name, a.data, a.acl) :
                        o.res = "ok" => o.boxes = boxes'
            /\ ret'.what # "box exists"
      ]_vars


-----------------------------------------------------------------------------
(* The two-leg group of the generic swap: tool_build_and_sign_swap,        *)
(* tool_verify_and_submit_swap and swap_complete_swap (SpecTrade).         *)
(* A transaction is a record of its kind ("pay": PaymentTxn, "axfer":      *)
(* AssetTransferTxn, "appl": a transaction with neither receiver nor       *)
(* amount) and the fields the tools read.                                  *)

\* close_remainder_to, close_assets_to and rekey_to are "" when not set,
\* as in every transaction the tools build
PaymentTxn(sender, receiver, amt) ==
    [kind |-> "pay", sender |-> sender, receiver |-> receiver, index |-> 0, amt |-> amt, close_remainder_to |-> "", rekey_to |-> ""]

AssetTransferTxn(sender, receiver, amt, asset_index) ==
    [kind |-> "axfer", sender |-> sender, receiver |-> receiver, index |-> asset_index, amt |-> amt, close_assets_to |-> "", rekey_to |-> ""]

ApplicationCallTxn(sender) == [kind |-> "appl", sender |-> sender]

\* a leg that is a payment whatever the asset
leg_txn_always_payment(sender, receiver, asa_id, amount) ==
    PaymentTxn(sender, receiver, amount)

\* a leg as both tools build it: a payment when the asset is ALGO
leg_txn(sender, receiver, asa_id, amount) ==
    IF _is_algo(asa_id) THEN PaymentTxn(sender, receiver, amount)
    ELSE AssetTransferTxn(sender, receiver, amount, asa_id)

\* the transaction the signer's server adds to a planned group
DummyTxn == PaymentTxn("DUMMY", "DUMMY", 0)

\* the signatures of the parties and of the server, base64
BuyerSig == b64encode(<<1>>)
SellerSig == b64encode(<<200, 7>>)

\* the errors the verification of one leg appends
leg_errors(txn, sender, receiver, asa_id, amount) ==
    (IF txn.sender # sender THEN {"sender"} ELSE {})
    \cup (IF txn.receiver # receiver THEN {"receiver"} ELSE {})
    \cup (IF _is_algo(asa_id) THEN
            IF txn.kind # "pay" THEN {"type"}
            ELSE IF txn.amt # amount THEN {"amount"} ELSE {}
          ELSE
            IF txn.kind # "axfer" THEN {"type"}
            ELSE (IF txn.index # asa_id THEN {"asa"} ELSE {})
                 \cup (IF txn.amt # amount THEN {"amount"} ELSE {}))

\* reading txn.receiver raises AttributeError
leg_raises(txn) == txn.kind \notin {"pay", "axfer"}

\* finalized_txns[0] raises IndexError, or a leg has no receiver
verify_raises(finalized_txns) ==
    \/ Len(finalized_txns) = 0
    \/ leg_raises(finalized_txns[1])
    \/ Len(finalized_txns) >= 2 /\ leg_raises(finalized_txns[2])

\* the list `errors` of tool_verify_and_submit_swap, as a set
verify_errors(st, finalized_txns) ==
    leg_errors(finalized_txns[1], st.my_address, st.peer_address,
               st.my_asa_id, st.my_asa_amount)
    \cup (IF Len(finalized_txns) < 2 THEN {"fewer than 2"}
          ELSE leg_errors(finalized_txns[2], st.peer_address, st.my_address,
                          st.peer_asa_id, st.peer_asa_amount))

\* exchange_data of tool_build_and_sign_swap
ExchangeData(prop_hash, planned_txns_hex, signed_list) ==
    [ proposal_hash |-> prop_hash, planned_txns_hex |-> planned_txns_hex,
      signed |-> signed_list ]

\* json.dumps(exchange_data, separators=(",", ":")).encode(): the bytes of
\* the document, one unit
exchange_json(exchange_data) == << exchange_data >>

\* json.loads(raw) raises, or a key of the document is missing
exchange_loads_raises(raw) ==
    \/ Len(raw) # 1
    \/ {"planned_txns_hex", "signed"} \ DOMAIN raw[1] # {}

\* a comparison that accepts any hash
hash_mismatch_never(file_hash, expected) == FALSE

\* file_hash != expected_hash
hash_mismatch(file_hash, expected) == file_hash # expected

\* exchange_data.get("proposal_hash", "")
file_hash_of(exchange_data) ==
    IF "proposal_hash" \in DOMAIN exchange_data
    THEN exchange_data.proposal_hash ELSE NoHash

\* txn_a, txn_b and the dummies of the planned group
planned_txns(buyer_addr, seller_addr, offer_asa, offer_amount, want_asa, want_amount, dummies) ==
    << leg_txn(buyer_addr, seller_addr, int(offer_asa), int(offer_amount)),
       leg_txn(seller_addr, buyer_addr, int(want_asa), int(want_amount)) >>
    \o [ i \in 1..dummies |-> DummyTxn ]

\* the seller's partial signatures: foreign slot 0 comes back as "", the
\* seller's transaction and the dummies are signed
seller_signed_list(dummies) ==
    << << >>, SellerSig >> \o [ i \in 1..dummies |-> SellerSig ]

\* exchange_data for the arguments of a call whose checks have passed
exchange_of(buyer_addr, seller_addr, offer_asa, offer_amount, want_asa, want_amount, dummies) ==
    ExchangeData(_proposal_hash(buyer_addr, seller_addr, offer_asa,
                                offer_amount, want_asa, want_amount),
                 planned_txns(buyer_addr, seller_addr, offer_asa,
                              offer_amount, want_asa, want_amount, dummies),
                 seller_signed_list(dummies))

\* the only arguments the checks of tool_build_and_sign_swap let a seller
\* session st pass, and what it then writes into its box
built_exchange(st, dummies) ==
    exchange_of(st.peer_address, st.my_address, IntForm(st.peer_asa_id),
                IntForm(st.peer_asa_amount), IntForm(st.my_asa_id),
                IntForm(st.my_asa_amount), dummies)

\* [state.my_address] + [None] * (len(finalized_txns) - 1), signed
buyer_signed_list(finalized_txns) ==
    [ i \in 1..Len(finalized_txns) |-> IF i = 1 THEN BuyerSig ELSE << >> ]


\* the checks of tool_build_and_sign_swap in their order: "" when all
\* pass; int() raises on a term that is no number
build_check(st, buyer_addr, seller_addr, offer_asa, offer_amount, want_asa, want_amount) ==
    IF seller_addr # st.my_address THEN [res |-> "error", what |-> "seller_addr"]
    ELSE IF buyer_addr # st.peer_address THEN [res |-> "error", what |-> "buyer_addr"]
    ELSE IF int_raises(offer_asa) THEN [res |-> "raise", what |-> "int"]
    ELSE IF int(offer_asa) # st.peer_asa_id THEN [res |-> "error", what |-> "offer_asa"]
    ELSE IF int_raises(offer_amount) THEN [res |-> "raise", what |-> "int"]
    ELSE IF int(offer_amount) # st.peer_asa_amount THEN [res |-> "error", what |-> "offer_amount"]
    ELSE IF int_raises(want_asa) THEN [res |-> "raise", what |-> "int"]
    ELSE IF int(want_asa) # st.my_asa_id THEN [res |-> "error", what |-> "want_asa"]
    ELSE IF int_raises(want_amount) THEN [res |-> "raise", what |-> "int"]
    ELSE IF int(want_amount) # st.my_asa_amount THEN [res |-> "error", what |-> "want_amount"]
    ELSE [res |-> "ok", what |-> ""]

\* One call of build_and_sign_swap and the save of the session.  The
\* signer's server plans and signs (with a dummy when a size hint asks for
\* one), the exchange data is written under the proposal hash, and the box
\* coordinates are recorded.  load_swap_app_id reads the deployment file:
\* `loaded` is what it holds.
tool_build_and_sign_swap(buyer_addr, seller_addr, offer_asa, offer_amount, want_asa, want_amount, buyer_lsig_size) ==
    /\ pc = "idle"
    /\ ret = NoRet
    /\ LET c == build_check(state, buyer_addr, seller_addr, offer_asa,
                            offer_amount, want_asa, want_amount)
       IN
       IF c.res # "ok" THEN
            /\ ret' = Ret("build_and_sign_swap", c.res, c.what, 0)
            /\ UNCHANGED <<state, boxes>>
       ELSE
            \/ /\ ret' = Ret("build_and_sign_swap", "raise", "node", 0)
               /\ UNCHANGED <<state, boxes>>
            \/ \E dummies \in (IF buyer_lsig_size > 0 THEN {0, 1} ELSE {0}),
                  loaded \in {0, SwapAppId} :
                 LET prop_hash == _proposal_hash(buyer_addr, seller_addr,
                                    offer_asa, offer_amount, want_asa,
                                    want_amount)
                     data == exchange_json(
                                exchange_of(buyer_addr, seller_addr,
                                    offer_asa, offer_amount, want_asa,
                                    want_amount, dummies))
                     app_id == IF state.swap_app_id # 0
                               THEN state.swap_app_id ELSE loaded
                 IN
                 IF app_id = 0 THEN
                      /\ ret' = Ret("build_and_sign_swap", "error", "app_id", 0)
                      /\ UNCHANGED <<state, boxes>>
                 ELSE
                      \E o \in write_box_outcomes(boxes, app_id, seller_addr,
                                  prop_hash, data, <<seller_addr, buyer_addr>>) :
                        /\ boxes' = o.boxes
                        /\ IF o.res = "ok"
                           THEN /\ state' = [state EXCEPT
                                               !.swap_app_id = app_id,
                                               !.swap_box_name = prop_hash]
                                /\ ret' = Ret("build_and_sign_swap", "ok", "",
                                              2 + dummies)
                           ELSE /\ state' = state
                                /\ ret' = Ret("build_and_sign_swap", "raise",
                                              o.what, 0)
    /\ file' = state'
    /\ UNCHANGED <<_key_cache, tunnel, signed_lists, merged, round, index, pc, seen, keys,
                   transfers>>

GroupTxid == 201

\* the atomic group as the ledger holds it
SubmittedGroup(finalized_txns) == [id |-> GroupTxid, group |-> finalized_txns]

Groups_submitted == { x \in transfers : "group" \in DOMAIN x }

\* One call of verify_and_submit_swap and the save of the session: the
\* box named by the hash of the session's own terms is read, the hash in
\* it and both legs are verified, the buyer's leg is signed, the two
\* partial sets are assembled and the group is submitted.
tool_verify_and_submit_swap ==
    /\ pc = "idle"
    /\ ret = NoRet
    /\ LET expected == expected_hash(state)
           app_id == state.swap_app_id
           quiet == UNCHANGED <<state, transfers, signed_lists, merged>>
       IN
       \/ /\ ret' = Ret("verify_and_submit_swap", "raise", "node", 0)
          /\ quiet
       \/ /\ read_box_raises(boxes, app_id, expected)
          /\ ret' = Ret("verify_and_submit_swap", "raise", "box", 0)
          /\ quiet
       \/ /\ ~read_box_raises(boxes, app_id, expected)
          /\ LET raw == read_box_value(boxes, app_id, expected) IN
             IF exchange_loads_raises(raw) THEN
                  /\ ret' = Ret("verify_and_submit_swap", "raise", "document", 0)
                  /\ quiet
             ELSE IF hash_mismatch(file_hash_of(raw[1]), expected) THEN
                  /\ ret' = Ret("verify_and_submit_swap", "error",
                                "proposal hash", 0)
                  /\ quiet
             ELSE IF verify_raises(raw[1].planned_txns_hex) THEN
                  /\ ret' = Ret("verify_and_submit_swap", "raise", "leg", 0)
                  /\ quiet
             ELSE IF verify_errors(state, raw[1].planned_txns_hex) # {} THEN
                  /\ ret' = Ret("verify_and_submit_swap", "error",
                                "verification", 0)
                  /\ quiet
             ELSE
                  LET finalized_txns == raw[1].planned_txns_hex
                      lists == << raw[1].signed,
                                  buyer_signed_list(finalized_txns) >>
                      combined == assemble_group(lists)
                  IN
                  \/ /\ ret' = Ret("verify_and_submit_swap", "raise",
                                   "signer", 0)
                     /\ quiet
                  \/ /\ signed_lists' = lists
                     /\ merged' = combined
                     /\ IF ~combined.ok THEN
                            /\ ret' = Ret("verify_and_submit_swap", "raise",
                                          "assemble", 0)
                            /\ UNCHANGED <<state, transfers>>
                        ELSE \E outcome \in SubmitOutcomes :
                            /\ Submit("verify_and_submit_swap",
                                      SubmittedGroup(finalized_txns), outcome)
                            /\ state' = IF outcome = "ok"
                                        THEN [state EXCEPT
                                                !.group_txid = GroupTxid,
                                                !.status = "submitted"]
                                        ELSE state
    /\ file' = state'
    /\ UNCHANGED <<_key_cache, tunnel, boxes, round, index, pc, seen, keys>>

\* record(state, msg): the entries one call appends to the action history
\* of the session (state.actions) are kept with the result of the call
Recorded(cleanup) ==
    IF cleanup = "none" THEN << "Swap marked complete" >>
    ELSE IF cleanup = "deleted"
    THEN << "Deleted exchange box", "Swap marked complete" >>
    ELSE << "Box cleanup skipped", "Swap marked complete" >>

\* a completion that gives up when the cleanup failed
complete_result_strict(cleanup) ==
    IF cleanup = "skipped"
    THEN [res |-> "error", what |-> "cleanup"]
    ELSE [res |-> "ok", what |-> "complete"]

\* return {"status": "complete"}, whatever the cleanup did
complete_result(cleanup) ==
    [res |-> "ok", what |-> "complete"]

\* the ways the cleanup of tool_complete_swap ends: no box coordinates are
\* recorded and nothing is attempted ("none"); delete_box returned
\* ("deleted"); or get_algod, get_signer or delete_box raised and the
\* exception was caught ("skipped"), the box being untouched (the signer,
\* the node or the contract refused, or the box was gone already) or
\* deleted (the wait for the confirmation raised)
cleanup_outcomes(st, bxs) ==
    IF st.swap_app_id = 0 \/ st.swap_box_name = NoHash
    THEN {[boxes |-> bxs, cleanup |-> "none"]}
    ELSE {[boxes |-> bxs, cleanup |-> "skipped"]} \cup
         ( IF /\ HasBox(bxs, st.swap_app_id, st.swap_box_name)
              /\ Authorized(BoxAt(bxs, st.swap_app_id, st.swap_box_name),
                            st.my_address)
           THEN { [boxes |-> contract_delete(bxs, st.swap_app_id,
                                 st.swap_box_name, st.my_address),
                   cleanup |-> c] : c \in {"deleted", "skipped"} }
           ELSE {} )

\* One call of complete_swap and the save of the session: the status is
\* set, and the box is deleted when its coordinates are recorded (a
\* failure of the deletion is tolerated).
swap_complete_swap ==
    /\ pc = "idle"
    /\ ret = NoRet
    /\ state' = [state EXCEPT !.status = "complete"]
    /\ \E o \in cleanup_outcomes(state, boxes) :
         /\ boxes' = o.boxes
         /\ ret' = Ret("complete_swap", complete_result(o.cleanup).res,
                       complete_result(o.cleanup).what, Recorded(o.cleanup))
    /\ file' = state'
    /\ UNCHANGED <<_key_cache, tunnel, signed_lists, merged, round, index, pc, seen, keys,
                   transfers>>


\* the seller session that holds the terms of the session st, mirrored
MirrorOf(st) ==
    [ swap_SwapState("seller", 0) EXCEPT
        !.my_address = st.peer_address, !.peer_address = st.my_address,
        !.my_asa_id = st.peer_asa_id, !.my_asa_amount = st.peer_asa_amount,
        !.peer_asa_id = st.my_asa_id, !.peer_asa_amount = st.my_asa_amount ]

\* a transaction with one field changed: the sender, the receiver, the
\* amount, the kind, the asset (a payment becomes a transfer of another
\* asset), or all of them
TamperedLegs(txn) ==
    { [txn EXCEPT !.sender = Mallory], [txn EXCEPT !.receiver = Mallory],
      [txn EXCEPT !.amt = OtherAmount],
      [txn EXCEPT !.kind = IF @ = "pay" THEN "axfer" ELSE "pay"],
      AssetTransferTxn(txn.sender, txn.receiver, txn.amt, OtherAsa),
      ApplicationCallTxn(txn.sender) }

\* what the peer may put into a box for the session st: the exchange data
\* an honest seller builds (without and with a dummy), those of a seller
\* that holds another amount, and the honest data with one leg, the list
\* of legs, the hash, the signatures or the keys of the document changed
\* the leg, closing the sender's balance of ALGO or of the asset to `to`
closing(txn, to) ==
    IF txn.kind = "pay" THEN [txn EXCEPT !.close_remainder_to = to]
    ELSE [txn EXCEPT !.close_assets_to = to]

\* documents whose leg 0 has the agreed sender, receiver, asset and amount
\* and also closes the buyer's account to the seller or rekeys it, and one
\* whose group has a third transaction that is no padding
GreedyExchanges(honest, st) ==
    { [honest EXCEPT !.planned_txns_hex[1] = closing(@, st.peer_address)],
      [honest EXCEPT !.planned_txns_hex[1] = [@ EXCEPT !.rekey_to = st.peer_address]],
      [honest EXCEPT !.planned_txns_hex = @ \o << PaymentTxn(st.peer_address, Mallory, 1) >>,
                     !.signed = @ \o << SellerSig >>] }

PeerExchanges(st) ==
    LET honest == built_exchange(MirrorOf(st), 0)
        other == built_exchange(
                    [MirrorOf(st) EXCEPT !.peer_asa_amount = OtherAmount], 0)
    IN  { honest, built_exchange(MirrorOf(st), 1), other }
        \cup GreedyExchanges(honest, st)
        \cup { [honest EXCEPT !.planned_txns_hex[i] = txn] :
                 i \in {1}, txn \in TamperedLegs(honest.planned_txns_hex[1]) }
        \cup { [honest EXCEPT !.planned_txns_hex[i] = txn] :
                 i \in {2}, txn \in TamperedLegs(honest.planned_txns_hex[2]) }
        \cup { [honest EXCEPT !.planned_txns_hex = << >>],
               [honest EXCEPT !.planned_txns_hex = << @[1] >>],
               [honest EXCEPT !.planned_txns_hex = << @[2], @[1] >>],
               [honest EXCEPT !.proposal_hash = other.proposal_hash],
               [other EXCEPT !.proposal_hash = honest.proposal_hash],
               [planned_txns_hex |-> honest.planned_txns_hex,
                signed |-> honest.signed],
               [proposal_hash |-> honest.proposal_hash],
               [honest EXCEPT !.signed = << << >>, << >> >>],
               [honest EXCEPT !.signed = << SellerSig, SellerSig >>],
               [honest EXCEPT !.signed = << SellerSig >>] }

\* the peer of a buyer writes a box under the name the buyer will read,
\* when there is none
PeerWritesBox ==
    /\ ret = NoRet
    /\ state.role = "buyer"
    /\ ~HasBox(boxes, SwapAppId, expected_hash(state))
    /\ \E exchange_data \in PeerExchanges(state) :
         boxes' = boxes_after_write(boxes, SwapAppId, state.peer_address,
                     expected_hash(state), exchange_json(exchange_data),
                     <<state.peer_address, state.my_address>>)
    /\ boxes' # boxes
    /\ UNCHANGED <<_key_cache, tunnel, signed_lists, merged, sessionVars>>

\* the arguments a driver may pass to build_and_sign_swap, as <<buyer_addr,
\* seller_addr, offer_asa, offer_amount, want_asa, want_amount,
\* buyer_lsig_size>>: the agreed terms as ints and as numeric strings, with
\* and without a size hint, and one call per wrong argument
BuildArgs ==
    LET oa == IntForm(ASA_A)
        om == IntForm(ASA_A_AMOUNT)
        wa == IntForm(ASA_B)
        wm == IntForm(ASA_B_AMOUNT)
    IN  { <<Peer, Me, oa, om, wa, wm, 0>>,
          <<Peer, Me, oa, om, wa, wm, 1>>,
          <<Peer, Me, StrForm(ASA_A), StrForm(ASA_A_AMOUNT), StrForm(ASA_B),
            StrForm(ASA_B_AMOUNT), 0>>,
          <<Me, Peer, oa, om, wa, wm, 0>>,
          <<Mallory, Me, oa, om, wa, wm, 0>>,
          <<Peer, Me, IntForm(OtherAsa), om, wa, wm, 0>>,
          <<Peer, Me, oa, IntForm(OtherAmount), wa, wm, 0>>,
          <<Peer, Me, oa, om, IntForm(OtherAsa), wm, 0>>,
          <<Peer, Me, oa, om, wa, IntForm(OtherAmount), 0>>,
          <<Peer, Me, IntForm(OtherAsa), IntForm(OtherAmount), wa, wm, 0>>,
          <<Peer, Me, NotANumber, om, wa, wm, 0>>,
          <<Peer, Me, oa, om, wa, NotANumber, 0>> }

\* the first message of the session has been taken by wait_for_message:
\* the seller has the buyer's proposal (the agreed terms or others, with or
\* without an application id), the buyer, its proposal sent, has the
\* seller's swap_partial
InitTrade ==
    /\ round = 1
    /\ index = { [id |-> 1, round |-> 1] }
    /\ \/ \E note \in { n \in SwapNotes : /\ n.type = "swap_propose"
                                          /\ n.numeric /\ n.has_offer } :
            state = swap_on_note(
                        swap_dedup_mark(swap_SwapState("seller", 1),
                                        [id |-> 1, round |-> 1]),
                        "swap_propose", note).st
       \/ \E note \in { n \in SwapNotes : n.type = "swap_partial" /\ n.numeric } :
            state = swap_on_note(
                        swap_dedup_mark(
                            swap_send_note_status(swap_SwapState("buyer", 1),
                                                  "swap_propose"),
                            [id |-> 1, round |-> 1]),
                        "swap_partial", note).st
    /\ file = state
    /\ pc = "idle"
    /\ seen = {}
    /\ ret = NoRet
    /\ keys = {}
    /\ transfers = {}
    /\ AsmIdle

NextTrade ==
    \/ \E a \in BuildArgs :
         tool_build_and_sign_swap(a[1], a[2], a[3], a[4], a[5], a[6], a[7])
    \/ tool_verify_and_submit_swap
    \/ swap_complete_swap
    \/ PeerWritesBox
    \/ next_turn

SpecTrade == (InitSwap \/ InitTrade) /\ [][NextTrade]_vars


\* every order in which the six keys of the proposal dict can be inserted
KeyOrders == ListOrders(6)

TermForms == {"int", "str"}
Formed(n, form) == [n |-> n, form |-> form]

\* the seller sessions a peer may hold: any addresses, assets and amounts
SellerSessions ==
    { [ swap_SwapState("seller", 0) EXCEPT
          !.my_address = ma, !.peer_address = pa, !.my_asa_id = mi,
          !.my_asa_amount = mm, !.peer_asa_id = pi, !.peer_asa_amount = pm ] :
        ma \in {Me, Peer, Mallory}, pa \in {Me, Peer, Mallory},
        mi \in {ASA_A, ASA_B, OtherAsa}, mm \in {ASA_A_AMOUNT, OtherAmount},
        pi \in {ASA_A, ASA_B, OtherAsa}, pm \in {ASA_B_AMOUNT, OtherAmount} }

SwapTermsOf(st) ==
    << st.my_address, st.peer_address, st.my_asa_id, st.my_asa_amount,
       st.peer_asa_id, st.peer_asa_amount >>

Mirrored(buyer, seller) == SwapTermsOf(seller) = SwapTermsOf(MirrorOf(buyer))

\* the call just made has computed the hash and acted on it: the seller
\* wrote its box under it, or the buyer compared it with the hash in the box
HashComputed ==
    \/ ret.op = "build_and_sign_swap" /\ ret.res = "ok"
    \/ ret.op = "verify_and_submit_swap" /\ ret.res = "ok"
    \/ ret = Ret("verify_and_submit_swap", "error", "proposal hash", 0)

\* C14: the proposal hash depends on the six swap terms only.  For the
\* terms of the session, taken as the buyer's: the hash is the same for
\* every insertion order of the six keys and for every writing of the four
\* numbers as int or as numeric string; it differs as soon as one of the
\* six values differs; and the hash a seller session writes equals the hash
\* the buyer recomputes exactly when the seller holds the same terms,
\* mirrored.
C14_ProposalHash ==
    HashComputed =>
    LET d == proposal_dict(state.my_address, state.peer_address,
                           IntForm(state.my_asa_id),
                           IntForm(state.my_asa_amount),
                           IntForm(state.peer_asa_id),
                           IntForm(state.peer_asa_amount))
        h == expected_hash(state)
    IN  /\ \A f \in KeyOrders : proposal_hash_of_dict(Permuted(d, f)) = h
        /\ \A f \in [1..4 -> TermForms] :
              _proposal_hash(state.my_address, state.peer_address,
                             Formed(state.my_asa_id, f[1]),
                             Formed(state.my_asa_amount, f[2]),
                             Formed(state.peer_asa_id, f[3]),
                             Formed(state.peer_asa_amount, f[4])) = h
        /\ \A i \in 1..2, v \in {Me, Peer, Mallory} :
              v # d[i].val =>
                proposal_hash_of_dict([d EXCEPT ![i].val = v]) # h
        /\ \A i \in 3..6, v \in {ASA_A, ASA_B, OtherAsa, ASA_A_AMOUNT,
                                 OtherAmount} :
              v # d[i].val =>
                proposal_hash_of_dict([d EXCEPT ![i].val = v]) # h
        /\ \A seller \in SellerSessions :
              (seller_prop_hash(seller) = h) = Mirrored(state, seller)

\* the buyer has recomputed the hash of its terms, found it in the box the
\* seller wrote, and gone on to submit
C14_Witness ==
    /\ state.role = "buyer"
    /\ ret = Ret("verify_and_submit_swap", "ok", "", 0)
    /\ HasBox(boxes, state.swap_app_id, expected_hash(state))
    /\ read_box_value(boxes, state.swap_app_id, expected_hash(state))[1]
         .proposal_hash = seller_prop_hash(MirrorOf(state))


\* the document in the box the session would read, when the box can be
\* read and the document has its keys
BoxReadable ==
    /\ ~read_box_raises(boxes, state.swap_app_id, expected_hash(state))
    /\ ~exchange_loads_raises(
            read_box_value(boxes, state.swap_app_id, expected_hash(state)))

BoxDocument ==
    read_box_value(boxes, state.swap_app_id, expected_hash(state))[1]

NothingSigned == signed_lists' = signed_lists /\ merged' = merged
NothingSubmitted == transfers' = transfers

\* C15: verify_and_submit_swap recomputes the proposal hash from the
\* session's own terms; when the hash in the box differs from it the call
\* returns an error (unless the signer could not be reached at all),
\* nothing is signed, merged or submitted, and the session, status and
\* group_txid included, stays as it was.
C15_HashMismatchRefused ==
    [][ ( /\ tool_verify_and_submit_swap
          /\ BoxReadable
          /\ file_hash_of(BoxDocument) # expected_hash(state) ) =>
        /\ \/ ret' = Ret("verify_and_submit_swap", "error", "proposal hash", 0)
           \/ ret' = Ret("verify_and_submit_swap", "raise", "node", 0)
        /\ NothingSigned
        /\ NothingSubmitted
        /\ state' = state
        /\ file' = state
      ]_vars

\* the buyer was refused a box whose legs are the agreed ones but whose
\* hash is that of other terms
C15_Witness ==
    /\ ret = Ret("verify_and_submit_swap", "error", "proposal hash", 0)
    /\ state.role = "buyer"
    /\ state.status = "partial_received"
    /\ BoxReadable
    /\ verify_errors(state, BoxDocument.planned_txns_hex) = {}
    /\ signed_lists = << >>

\* both legs are the agreed ones
LegsAsAgreed(st, finalized_txns) ==
    /\ Len(finalized_txns) >= 2
    /\ finalized_txns[1] = leg_txn(st.my_address, st.peer_address,
                                   st.my_asa_id, st.my_asa_amount)
    /\ finalized_txns[2] = leg_txn(st.peer_address, st.my_address,
                                   st.peer_asa_id, st.peer_asa_amount)

\* C16: verify_and_submit_swap signs and submits only if leg 0 is the
\* buyer's transfer to the seller of the buyer's asset and amount and leg 1
\* the seller's transfer to the buyer of the seller's asset and amount
\* (payments for ALGO, asset transfers otherwise); any mismatch makes the
\* call return an error, nothing is signed or submitted and the status does
\* not become submitted.
C16_LegsVerified ==
    [][ tool_verify_and_submit_swap =>
        /\ (~NothingSigned \/ ~NothingSubmitted) =>
              BoxReadable /\ LegsAsAgreed(state, BoxDocument.planned_txns_hex)
        /\ ( /\ BoxReadable
             /\ file_hash_of(BoxDocument) = expected_hash(state)
             /\ ~LegsAsAgreed(state, BoxDocument.planned_txns_hex)
             /\ ret' # Ret("verify_and_submit_swap", "raise", "node", 0) ) =>
              /\ ret'.res = "error"
              /\ NothingSigned
              /\ NothingSubmitted
              /\ state'.status = state.status
      ]_vars

\* the box an honest seller with the mirrored terms writes when it is
\* given no size hint
HonestBox ==
    /\ BoxReadable
    /\ BoxDocument = built_exchange(MirrorOf(state), 0)

\* C17: the generic swap end to end with the values of config.py
\* (1,000,000 of asset 0 against 1,000,000 of asset 10458941) and honest
\* signers: the buyer's verification of the box the seller built passes,
\* the merge succeeds, and the group submitted has exactly two legs, leg 0
\* sent by the buyer with amount 1,000,000 and leg 1 sent by the seller
\* with asset 10458941.
C17_EndToEnd ==
    [][ ( /\ tool_verify_and_submit_swap
          /\ state.role = "buyer"
          /\ SwapTermsOf(state) = SwapTermsOf(swap_SwapState("buyer", 0))
          /\ HonestBox
          /\ ret'.what \notin {"node", "signer", "rejected", "unconfirmed"} ) =>
        /\ ret' = Ret("verify_and_submit_swap", "ok", "", 0)
        /\ merged'.ok
        /\ state'.status = "submitted"
        /\ state'.group_txid = GroupTxid
        /\ \E g \in Groups_submitted' :
              /\ g.id = state'.group_txid
              /\ Len(g.group) = 2
              /\ g.group[1].sender = state.my_address
              /\ g.group[1].receiver = state.peer_address
              /\ g.group[1].kind = "pay"
              /\ g.group[1].amt = 1000000
              /\ g.group[2].sender = state.peer_address
              /\ g.group[2].receiver = state.my_address
              /\ g.group[2].kind = "axfer"
              /\ g.group[2].index = 10458941
              /\ g.group[2].amt = 1000000
      ]_vars

\* the buyer has submitted the group the honest seller built
C17_Witness ==
    /\ state.role = "buyer"
    /\ state.status = "submitted"
    /\ state.group_txid = GroupTxid
    /\ merged.ok
    /\ signed_lists = << seller_signed_list(0),
                         buyer_signed_list(built_exchange(MirrorOf(state), 0).planned_txns_hex) >>
    /\ SubmittedGroup(built_exchange(MirrorOf(state), 0).planned_txns_hex) \in transfers


\* the stage of a status of the generic swap
SwapStage ==
    [ pending |-> 0, propose_sent |-> 1, propose_received |-> 1,
      partial_received |-> 2, partial_sent |-> 2, submitted |-> 3,
      complete |-> 4 ]

\* C18: the status of a generic swap session only advances along pending,
\* propose_sent or propose_received, partial_received or partial_sent,
\* submitted, complete: every change of status moves to the next stage,
\* never backwards and never over a stage, so that complete is reached from
\* submitted only.
C18_SwapStatusOrder ==
    [][ (IsSwapSession /\ state'.status # state.status) =>
            SwapStage[state'.status] = SwapStage[state.status] + 1 ]_vars

\* the statuses of an HTLC session in the order of its role
HtlcStatuses(role) ==
    IF role = "buyer"
    THEN << "pending", "offer_sent", "accept_received", "complete" >>
    ELSE << "pending", "offer_received", "accept_sent", "preimage_discovered",
            "complete" >>

StageIn(statuses, status) ==
    IF status \in Range(statuses)
    THEN CHOOSE i \in DOMAIN statuses : statuses[i] = status
    ELSE 0

\* C19: the status of an HTLC session only advances along pending,
\* offer_sent, accept_received, claim, complete (buyer) or pending,
\* offer_received, accept_sent, preimage_discovered, claim, complete
\* (seller): every change of status moves to the next status of the
\* session's own role, and to complete only once the session's own claim
\* has been submitted (claim_txid is recorded).
C19_HtlcStatusOrder ==
    [][ (IsHtlcSession /\ state'.status # state.status) =>
        LET statuses == HtlcStatuses(state.role) IN
        /\ state'.status \in Range(statuses)
        /\ StageIn(statuses, state'.status)
             = StageIn(statuses, state.status) + 1
        /\ state'.status = "complete" => state.claim_txid # "" ]_vars


\* the coordinates of the exchange box are recorded in the session
HasCoordinates(st) == st.swap_app_id # 0 /\ st.swap_box_name # NoHash

\* the box the session's coordinates name is on the ledger
BoxThere(st, bxs) ==
    HasCoordinates(st) /\ HasBox(bxs, st.swap_app_id, st.swap_box_name)

\* C23: complete_swap of the generic swap always sets the status to
\* complete, saves the session and returns the success result, whether the
\* deletion of the exchange box succeeds, fails, or finds the box gone; a
\* deletion that did not go through is only recorded in the action
\* history ("Box cleanup skipped") and "Deleted exchange box" is recorded
\* only when the box is gone.
C23_CleanupAdvisory ==
    [][ swap_complete_swap =>
          /\ state'.status = "complete"
          /\ file' = state'
          /\ ret'.op = "complete_swap"
          /\ ret'.res = "ok"
          /\ ret'.what = "complete"
          /\ ret'.arg[Len(ret'.arg)] = "Swap marked complete"
          /\ BoxThere(state, boxes') => ret'.arg[1] = "Box cleanup skipped"
          /\ (HasCoordinates(state) /\ ~BoxThere(state, boxes)) =>
                ret'.arg[1] = "Box cleanup skipped"
          /\ ret'.arg[1] = "Deleted exchange box" =>
                BoxThere(state, boxes) /\ ~BoxThere(state, boxes')
      ]_vars

\* complete_swap has returned success on a session whose box was not there
\* any more, with the skipped cleanup in the history
C23_Witness ==
    /\ ret.op = "complete_swap"
    /\ ret.res = "ok"
    /\ state.status = "complete"
    /\ HasCoordinates(state)
    /\ ~BoxThere(state, boxes)
    /\ ret.arg[1] = "Box cleanup skipped"

\* the session wrote the exchange box (seller) or read it and submitted the
\* group (buyer)
SwapDone(st) ==
    \/ st.role = "seller" /\ HasCoordinates(st)
    \/ st.role = "buyer" /\ st.status = "submitted"

\* C24: after a swap in which the seller wrote the exchange box and the
\* buyer read it, complete_swap in the buyer's session and complete_swap in
\* the seller's session each mark the session complete and each issue a
\* deletion of that box (which the history shows as deleted or skipped).
C24_BothCleanUp ==
    [][ (swap_complete_swap /\ SwapDone(state)) =>
          /\ state'.status = "complete"
          /\ ret'.arg[1] \in {"Deleted exchange box", "Box cleanup skipped"}
      ]_vars


-----------------------------------------------------------------------------
(* The signing client (signer.py): the request body of /plan and /sign,    *)
(* and the slots build_and_sign_swap asks for.                             *)
(* Positions are counted from 1: index i of the code is position i + 1.    *)
(* A dict over indices (passthrough, lsig_sizes) is a function over        *)
(* positions, None being the function over no position.                    *)

\* None, as an auth address
None == "None"

\* None, as a transaction
NoTxn == [kind |-> "none"]

NoDictOver == << >>

\* bytes.hex(): two digits per byte
RECURSIVE hex(_)
hex(bs) ==
    IF bs = << >> THEN << >>
    ELSE << bs[1] \div 16, bs[1] % 16 >> \o hex(Tail(bs))

\* bytes.fromhex(h) raises ValueError
fromhex_raises(h) ==
    \/ Len(h) % 2 = 1
    \/ \E i \in DOMAIN h : h[i] \notin 0..15

\* bytes.fromhex(h)
RECURSIVE fromhex(_)
fromhex(h) ==
    IF Len(h) < 2 THEN << >>
    ELSE << h[1] * 16 + h[2] >> \o fromhex(SubSeq(h, 3, Len(h)))

\* encode_transaction: the hex of "TX" and the msgpack of the transaction
\* (kept as one unit), and the sender
encode_transaction(txn) == [hex |-> [TX |-> txn], sender |-> txn.sender]

\* base64.b64decode(s, validate=True) raises: a character outside the
\* alphabet, a length that is no multiple of 4, or padding out of place
b64decode_raises(s) ==
    \/ Len(s) % 4 # 0
    \/ \E i \in DOMAIN s : s[i] \notin 0..Pad
    \/ \E i \in DOMAIN s : s[i] = Pad /\ i < Len(s) - 1
    \/ \E i \in DOMAIN s : s[i] = Pad /\ i = Len(s) - 1 /\ s[Len(s)] # Pad

\* a validation that lets a negative size hint pass
build_body_raises_any_size(txns, auth_addresses, passthrough, lsig_sizes) ==
    \/ \E idx \in DOMAIN passthrough : idx \notin 1..Len(txns)
    \/ \E idx \in DOMAIN lsig_sizes : idx \notin 1..Len(txns)
    \/ \E i \in DOMAIN txns \cap DOMAIN auth_addresses :
          \/ i \in DOMAIN passthrough /\ b64decode_raises(passthrough[i])
          \/ i \notin DOMAIN passthrough /\ txns[i] = NoTxn

\* _build_sign_request_body raises ValueError
build_body_raises(txns, auth_addresses, passthrough, lsig_sizes) ==
    \/ \E idx \in DOMAIN passthrough : idx \notin 1..Len(txns)
    \/ \E idx \in DOMAIN lsig_sizes :
          idx \notin 1..Len(txns) \/ lsig_sizes[idx] < 0
    \/ \E i \in DOMAIN txns \cap DOMAIN auth_addresses :
          \/ i \in DOMAIN passthrough /\ b64decode_raises(passthrough[i])
          \/ i \notin DOMAIN passthrough /\ txns[i] = NoTxn

\* one entry of the request array: passthrough, foreign mode, sign mode
sign_request_entry(i, txn, auth_addr, passthrough, lsig_sizes) ==
    IF i \in DOMAIN passthrough
    THEN [signed_txn_hex |-> hex(b64decode(passthrough[i]))]
    ELSE IF auth_addr = None \/ auth_addr = ""
    THEN IF i \in DOMAIN lsig_sizes
         THEN [txn_bytes_hex |-> encode_transaction(txn).hex,
               lsig_size |-> lsig_sizes[i]]
         ELSE [txn_bytes_hex |-> encode_transaction(txn).hex]
    ELSE [txn_bytes_hex |-> encode_transaction(txn).hex,
          auth_address |-> auth_addr,
          txn_sender |-> encode_transaction(txn).sender]

\* _build_sign_request_body: the "requests" of the body, one per pair of
\* zip(txns, auth_addresses)
_build_sign_request_body(txns, auth_addresses, passthrough, lsig_sizes) ==
    [ i \in DOMAIN txns \cap DOMAIN auth_addresses |->
        sign_request_entry(i, txns[i], auth_addresses[i], passthrough,
                           lsig_sizes) ]

\* the kind of slot an entry of the request asks for
SlotKind(req) ==
    IF "signed_txn_hex" \in DOMAIN req THEN "Passthrough"
    ELSE IF "auth_address" \in DOMAIN req THEN "Sign"
    ELSE "Foreign"

\* build_and_sign_swap: txns=[txn_a, txn_b]
swap_txns(buyer_addr, seller_addr, offer_asa, offer_amount, want_asa, want_amount) ==
    << leg_txn(buyer_addr, seller_addr, int(offer_asa), int(offer_amount)),
       leg_txn(seller_addr, buyer_addr, int(want_asa), int(want_amount)) >>

\* auth addresses that ask the seller's signer to sign both legs
swap_auth_addresses_both(buyer_addr, seller_addr) ==
    << buyer_addr, seller_addr >>

\* auth_addresses = [None, seller_addr]
swap_auth_addresses(buyer_addr, seller_addr) ==
    << None, seller_addr >>

\* lsig_sizes = {0: buyer_lsig_size} when the size is positive, else None
swap_lsig_sizes(buyer_lsig_size) ==
    IF buyer_lsig_size > 0 THEN << buyer_lsig_size >> ELSE NoDictOver

\* the body of signer.plan_group(...) in build_and_sign_swap
swap_plan_body(buyer_addr, seller_addr, offer_asa, offer_amount, want_asa, want_amount, buyer_lsig_size) ==
    _build_sign_request_body(
        swap_txns(buyer_addr, seller_addr, offer_asa, offer_amount, want_asa,
                  want_amount),
        swap_auth_addresses(buyer_addr, seller_addr), NoDictOver,
        swap_lsig_sizes(buyer_lsig_size))

\* the body of signer.sign_transactions_list(...) in build_and_sign_swap
swap_sign_body(buyer_addr, seller_addr, offer_asa, offer_amount, want_asa, want_amount, buyer_lsig_size) ==
    _build_sign_request_body(
        swap_txns(buyer_addr, seller_addr, offer_asa, offer_amount, want_asa,
                  want_amount),
        swap_auth_addresses(buyer_addr, seller_addr), NoDictOver,
        swap_lsig_sizes(buyer_lsig_size))

\* the document in the box the session has written
WrittenDocument ==
    read_box_value(boxes, state.swap_app_id, state.swap_box_name)[1]

\* C25: build_and_sign_swap asks for leg A (buyer to seller) as a Foreign
\* slot, without auth address and with a size hint only when
\* buyer_lsig_size > 0, and for leg B (seller to buyer) as a Sign slot with
\* the seller's address, in that order and with the same body for plan
\* and for sign; the partial signatures it publishes have an empty entry
\* at the buyer's slot and no entry that signs the buyer's leg.
C25_ForeignThenSign ==
    [][ \A a \in BuildArgs :
          ( /\ ret'.op = "build_and_sign_swap"
            /\ ret'.res = "ok"
            /\ tool_build_and_sign_swap(a[1], a[2], a[3], a[4], a[5], a[6],
                                        a[7]) ) =>
          LET plan == swap_plan_body(a[1], a[2], a[3], a[4], a[5], a[6], a[7])
              sign == swap_sign_body(a[1], a[2], a[3], a[4], a[5], a[6], a[7])
              leg_a == leg_txn(a[1], a[2], int(a[3]), int(a[4]))
              leg_b == leg_txn(a[2], a[1], int(a[5]), int(a[6]))
              doc == read_box_value(boxes', state'.swap_app_id,
                                    state'.swap_box_name)[1]
          IN  /\ plan = sign
              /\ Len(sign) = 2
              /\ SlotKind(sign[1]) = "Foreign"
              /\ sign[1].txn_bytes_hex = encode_transaction(leg_a).hex
              /\ "auth_address" \notin DOMAIN sign[1]
              /\ "lsig_size" \in DOMAIN sign[1] <=> a[7] > 0
              /\ SlotKind(sign[2]) = "Sign"
              /\ sign[2] = [ txn_bytes_hex |-> encode_transaction(leg_b).hex,
                             auth_address |-> a[2], txn_sender |-> a[2] ]
              /\ "lsig_size" \notin DOMAIN sign[2]
              /\ doc.planned_txns_hex[1] = leg_a
              /\ doc.signed[1] = << >>
              /\ Len(doc.signed) = Len(doc.planned_txns_hex)
              /\ \A k \in DOMAIN doc.signed :
                    doc.signed[k] # << >> =>
                        k >= 2 /\ doc.planned_txns_hex[k] # leg_a
      ]_vars

\* the seller has published its partial signatures for a request with a
\* size hint: the buyer's slot is empty, its own and the dummy's are signed
C25_Witness ==
    /\ ret = Ret("build_and_sign_swap", "ok", "", 3)
    /\ state.swap_box_name # NoHash
    /\ ~read_box_raises(boxes, state.swap_app_id, state.swap_box_name)
    /\ WrittenDocument.signed = << << >>, SellerSig, SellerSig >>


-----------------------------------------------------------------------------
(* sign_transactions_list and _sign_request against the signer's server    *)
(* (SpecSign).  A response is the status code (NoStatus when the POST      *)
(* raised), whether its content is JSON, the JSON object and the raw text. *)
(* A text is a sequence of words.  A result of a call is kept with the     *)
(* request that was sent and the response that came back.                  *)

\* str.lower()
lower(text) ==
    [ i \in DOMAIN text |->
        IF text[i] = "Not" THEN "not"
        ELSE IF text[i] = "Found" THEN "found"
        ELSE IF text[i] = "Key" THEN "key"
        ELSE text[i] ]

\* "not found" in text
contains_not_found(text) ==
    \E i \in DOMAIN text :
        i + 1 \in DOMAIN text /\ text[i] = "not" /\ text[i + 1] = "found"

EmptyDict == << >>

\* _safe_json(resp)
_safe_json(resp) == IF resp.json THEN resp.body ELSE EmptyDict

\* data.get(key, default)
dict_get(data, key, default) ==
    IF key \in DOMAIN data THEN data[key] ELSE default

\* a 403 handled as plan_group handles it
error_403_as_plan(resp) == "SignerError"

\* the error of a 403 response
error_403(resp) == "SigningRejectedError"

\* the result list without its empty entries
sign_result_signed_only(signed_hexes) ==
    SelectSeq([ k \in DOMAIN signed_hexes |->
                  b64encode(fromhex(signed_hexes[k])) ],
              LAMBDA x : x # << >>)

\* the result list: "" for "", base64 of the bytes for a hex entry
sign_result(signed_hexes) ==
    [ k \in DOMAIN signed_hexes |->
        IF signed_hexes[k] = << >> THEN << >>
        ELSE b64encode(fromhex(signed_hexes[k])) ]

Raised(what) == [res |-> "raise", what |-> what, result |-> << >>]

NoStatus == 0

\* _sign_request once the body is built: the response is turned into the
\* result list or into the exception raised
_sign_request(resp) ==
    IF resp.status = NoStatus THEN Raised("SignerUnavailableError")
    ELSE IF resp.status = 401 THEN Raised("AuthenticationError")
    ELSE IF resp.status = 400 THEN
        IF contains_not_found(
              lower(dict_get(_safe_json(resp), "error", resp.text)))
        THEN Raised("KeyNotFoundError")
        ELSE Raised("SignerError")
    ELSE IF resp.status = 403 THEN Raised(error_403(resp))
    ELSE IF resp.status = 503 THEN Raised("SignerUnavailableError")
    ELSE IF resp.status # 200 THEN Raised("SignerError")
    ELSE IF ~resp.json THEN Raised("SignerError")
    ELSE IF dict_get(resp.body, "error", << >>) # << >>
    THEN Raised("SignerError")
    ELSE IF dict_get(resp.body, "signed", << >>) = << >>
    THEN Raised("SignerError")
    ELSE IF \E k \in DOMAIN resp.body.signed :
                fromhex_raises(resp.body.signed[k])
    THEN Raised("ValueError")
    ELSE [res |-> "ok", what |-> "", result |-> sign_result(resp.body.signed)]


(* The signer's server, as the protocol describes it: it signs a Sign slot *)
(* with the key of the auth address, leaves a Foreign slot empty, passes a *)
(* Passthrough slot on unchanged, and appends the padding transactions it  *)
(* inserts, signed, unless the request has a Passthrough slot.             *)

MaxDummies == 1

\* the keys the signer holds
ServerKeys == {Me}

KeyByte(addr) == IF addr = Me THEN 1 ELSE IF addr = Peer THEN 2 ELSE 9

\* the bytes of a transaction signed with the key of addr
SignedTxnBytes(addr, txn_bytes_hex) == << KeyByte(addr), txn_bytes_hex.TX.id >>

DummySignedBytes == << 200, 7 >>

server_signed(requests, dummies) ==
    [ k \in DOMAIN requests |->
        IF SlotKind(requests[k]) = "Passthrough"
        THEN requests[k].signed_txn_hex
        ELSE IF SlotKind(requests[k]) = "Sign"
        THEN hex(SignedTxnBytes(requests[k].auth_address,
                                requests[k].txn_bytes_hex))
        ELSE << >> ]
    \o [ i \in 1..dummies |-> hex(DummySignedBytes) ]

\* the numbers of padding transactions the server may insert
ServerDummies(requests) ==
    IF \E k \in DOMAIN requests : SlotKind(requests[k]) = "Passthrough"
    THEN {0}
    ELSE 0..MaxDummies

Response(status, json, body, text) ==
    [status |-> status, json |-> json, body |-> body, text |-> text]

NoResponse == Response(NoStatus, FALSE, EmptyDict, <<"none">>)

\* what may come back for a request
server_responses(requests) ==
    ( IF \A k \in DOMAIN requests :
            SlotKind(requests[k]) = "Sign" =>
                requests[k].auth_address \in ServerKeys
      THEN { Response(200, TRUE, [signed |-> server_signed(requests, d)],
                      << >>) : d \in ServerDummies(requests) }
      ELSE { Response(400, TRUE, [error |-> <<"Key", "Not", "Found">>], << >>),
             Response(400, TRUE, [error |-> <<"key", "not", "found">>], << >>),
             Response(400, FALSE, EmptyDict, <<"key", "not", "found">>) } )
    \cup
    { Response(NoStatus, FALSE, EmptyDict, << >>),
      Response(401, TRUE, [error |-> <<"invalid", "token">>], << >>),
      Response(400, TRUE, [error |-> <<"bad", "group">>], << >>),
      Response(400, FALSE, EmptyDict, <<"bad", "request">>),
      Response(400, TRUE, [detail |-> <<"key", "not", "found">>],
               <<"bad", "request">>),
      Response(403, TRUE, [error |-> <<"rejected">>], << >>),
      Response(403, FALSE, EmptyDict, <<"forbidden">>),
      Response(503, TRUE, [error |-> <<"locked">>], << >>),
      Response(500, FALSE, EmptyDict, <<"internal">>),
      Response(404, FALSE, EmptyDict, <<"not", "found">>),
      Response(200, FALSE, EmptyDict, <<"ok">>),
      Response(200, TRUE, [error |-> <<"group", "too", "large">>], << >>),
      Response(200, TRUE, [error |-> <<"failed">>,
                           signed |-> server_signed(requests, 0)], << >>),
      Response(200, TRUE, [signed |-> << >>], << >>),
      Response(200, TRUE, EmptyDict, << >>),
      Response(200, TRUE, [signed |-> << <<0, 1, 99>> >>], << >>) }

\* None, as a list of auth addresses
NoList == << "NoList" >>

\* the call as it is kept with its result
SignCall(body, resp, result) == [body |-> body, resp |-> resp, result |-> result]

\* sign_transactions_list: auth_addresses defaults to the senders, the
\* lengths are compared, the body is built and _sign_request is run
sign_transactions_list(txns, auth_addresses, passthrough, lsig_sizes) ==
    /\ pc = "idle"
    /\ ret = NoRet
    /\ LET auth == IF auth_addresses = NoList
                   THEN [ i \in DOMAIN txns |->
                            IF txns[i] = NoTxn THEN None ELSE txns[i].sender ]
                   ELSE auth_addresses
       IN
       IF \/ Len(auth) # Len(txns)
          \/ build_body_raises(txns, auth, passthrough, lsig_sizes)
       THEN ret' = Ret("sign_transactions_list", "raise", "ValueError",
                       SignCall(<< >>, NoResponse, << >>))
       ELSE LET body == _build_sign_request_body(txns, auth, passthrough,
                                                 lsig_sizes)
            IN  \E resp \in server_responses(body) :
                  ret' = Ret("sign_transactions_list", _sign_request(resp).res,
                             _sign_request(resp).what,
                             SignCall(body, resp, _sign_request(resp).result))
    /\ UNCHANGED <<_key_cache, tunnel, signed_lists, merged, boxes, state, file, round, index, pc,
                   seen, keys, transfers>>


\* a concatenation that skips the empty entries
concatenated_skipping(signed_list) ==
    [res |-> "ok", what |-> "", result |-> b64encode(JoinDecoded(signed_list))]

\* sign_transactions, after _sign_request returned signed_list: SignerError
\* when an entry is "", else the base64 of the joined bytes of all entries
concatenated(signed_list) ==
    IF \E k \in DOMAIN signed_list : signed_list[k] = << >>
    THEN Raised("SignerError")
    ELSE [res |-> "ok", what |-> "", result |-> b64encode(JoinDecoded(signed_list))]

\* sign_transactions: auth_addresses defaults to the senders, the lengths
\* are compared, the body is built, _sign_request is run and its list is
\* concatenated
sign_transactions(txns, auth_addresses, passthrough, lsig_sizes) ==
    /\ pc = "idle"
    /\ ret = NoRet
    /\ LET auth == IF auth_addresses = NoList
                   THEN [ i \in DOMAIN txns |->
                            IF txns[i] = NoTxn THEN None ELSE txns[i].sender ]
                   ELSE auth_addresses
       IN
       IF \/ Len(auth) # Len(txns)
          \/ build_body_raises(txns, auth, passthrough, lsig_sizes)
       THEN ret' = Ret("sign_transactions", "raise", "ValueError",
                       SignCall(<< >>, NoResponse, << >>))
       ELSE LET body == _build_sign_request_body(txns, auth, passthrough,
                                                 lsig_sizes)
            IN  \E resp \in server_responses(body) :
                  LET signed_list == _sign_request(resp)
                      out == IF signed_list.res = "ok"
                             THEN concatenated(signed_list.result)
                             ELSE signed_list
                  IN  ret' = Ret("sign_transactions", out.res, out.what,
                                 SignCall(body, resp, out.result))
    /\ UNCHANGED <<_key_cache, tunnel, signed_lists, merged, boxes, state, file, round, index, pc,
                   seen, keys, transfers>>

\* transactions to sign, by sender and number
SignTxn(sender, id) == [kind |-> "pay", sender |-> sender, id |-> id]

\* a transaction the peer has signed already, base64
PeerSigned(id) == b64encode(<< KeyByte(Peer), id >>)

\* one slot of a call, at position i: the transaction, the auth address,
\* the passthrough and the size hint it contributes
SlotChoices(i) ==
    { [txn |-> SignTxn(Me, i), auth |-> Me, pass |-> << >>, hint |-> << >>],
      [txn |-> SignTxn(Me, i), auth |-> Peer, pass |-> << >>, hint |-> << >>],
      [txn |-> SignTxn(Peer, i), auth |-> None, pass |-> << >>, hint |-> << >>],
      [txn |-> SignTxn(Peer, i), auth |-> None, pass |-> << >>, hint |-> <<3>>],
      [txn |-> SignTxn(Peer, i), auth |-> None, pass |-> << >>, hint |-> <<0>>],
      [txn |-> NoTxn, auth |-> None, pass |-> <<PeerSigned(i)>>, hint |-> << >>] }

\* the function over the positions whose slot contributes to `field`
DictOf(slots, field) ==
    [ i \in { j \in DOMAIN slots : slots[j][field] # << >> } |->
        slots[i][field][1] ]

CallOf(slots) ==
    [ txns |-> [ i \in DOMAIN slots |-> slots[i].txn ],
      auth |-> [ i \in DOMAIN slots |-> slots[i].auth ],
      pass |-> DictOf(slots, "pass"),
      hint |-> DictOf(slots, "hint") ]

\* the calls: every choice of one or two slots, the same with the auth
\* addresses left to their default, and calls that are refused before
\* anything is sent
SignCalls ==
    LET one == { CallOf(<<a>>) : a \in SlotChoices(1) }
        two == { CallOf(<<a, b>>) : a \in SlotChoices(1), b \in SlotChoices(2) }
    IN  one \cup two
        \cup { [c EXCEPT !.auth = NoList] : c \in one }
        \cup { [c EXCEPT !.auth = << Me >>] : c \in two }
        \cup { [c EXCEPT !.txns = << NoTxn >>] : c \in one }
        \cup { [c EXCEPT !.hint = [ i \in {3} |-> 1 ]] : c \in one }
        \cup { [c EXCEPT !.hint = [ i \in {1} |-> -1 ]] : c \in one }
        \cup { [c EXCEPT !.pass = [ i \in {2} |-> PeerSigned(2) ]] : c \in one }
        \cup { [c EXCEPT !.pass = [ i \in {1} |-> <<1, 2, 3>> ]] : c \in one }

InitSign ==
    /\ InitSwap
    /\ state = swap_SwapState("seller", 0)

NextSign ==
    \/ \E c \in SignCalls :
         sign_transactions_list(c.txns, c.auth, c.pass, c.hint)
    \/ \E c \in SignCalls :
         sign_transactions(c.txns, c.auth, c.pass, c.hint)
    \/ next_turn

SpecSign == InitSign /\ [][NextSign]_vars


\* a call of sign_transactions_list has returned a list
SignReturned == ret.op = "sign_transactions_list" /\ ret.res = "ok"

\* a call of sign_transactions_list has sent its request
SignSent == ret.op = "sign_transactions_list" /\ ret.arg.resp # NoResponse

\* the entries of the result are those of the request's slots, in request
\* order: empty exactly for a Foreign slot, the transaction signed with
\* the key of the auth address for a Sign slot, the caller's signed
\* transaction for a Passthrough slot
SlotsAligned(body, result) ==
    /\ Len(result) >= Len(body)
    /\ \A k \in DOMAIN body :
          /\ result[k] = << >> <=> SlotKind(body[k]) = "Foreign"
          /\ SlotKind(body[k]) = "Sign" =>
                b64decode(result[k]) =
                    SignedTxnBytes(body[k].auth_address, body[k].txn_bytes_hex)
          /\ SlotKind(body[k]) = "Passthrough" =>
                hex(b64decode(result[k])) = body[k].signed_txn_hex

\* C26 as stated: the list sign_transactions_list returns has exactly one
\* entry per slot of the request, in request order, an entry is empty
\* exactly when its slot is a Foreign slot, and the length of the result
\* equals the length of the request.
C26_ResultLengthOfRequest ==
    SignReturned =>
        /\ SlotsAligned(ret.arg.body, ret.arg.result)
        /\ Len(ret.arg.result) = Len(ret.arg.body)

\* C26, amended: the list has one entry per slot of the request, in
\* request order, empty exactly when the slot is a Foreign slot, followed
\* by one signed entry per padding transaction the server inserted; the
\* length of the result is the length of the request plus the number of
\* padding transactions, which is zero when a slot is a Passthrough slot.
C26_ResultAligned ==
    SignReturned =>
        LET body == ret.arg.body
            result == ret.arg.result
        IN  /\ SlotsAligned(body, result)
            /\ Len(result) - Len(body) \in ServerDummies(body)
            /\ \A k \in DOMAIN result :
                  k > Len(body) => b64decode(result[k]) = DummySignedBytes

\* a request of a Foreign slot with a size hint and a Sign slot has come
\* back with three entries
C26_Witness ==
    /\ SignReturned
    /\ Len(ret.arg.body) = 2
    /\ SlotKind(ret.arg.body[1]) = "Foreign"
    /\ "lsig_size" \in DOMAIN ret.arg.body[1]
    /\ SlotKind(ret.arg.body[2]) = "Sign"
    /\ Len(ret.arg.result) = 3
    /\ ret.arg.result[1] = << >>

Taxonomy ==
    { "SignerUnavailableError", "AuthenticationError", "SigningRejectedError",
      "KeyNotFoundError", "SignerError" }

\* the error text of a 400 response: the error field of its JSON object,
\* or the raw text when there is none
ErrorText(resp) ==
    IF resp.json /\ "error" \in DOMAIN resp.body THEN resp.body.error
    ELSE resp.text

\* "not found" in any case
NamesNotFound(text) ==
    \E i \in DOMAIN text :
        /\ i + 1 \in DOMAIN text
        /\ text[i] \in {"not", "Not"}
        /\ text[i + 1] \in {"found", "Found"}

\* the response is a full success: HTTP 200, JSON, no error field, at
\* least one signed entry
FullSuccess(resp) ==
    /\ resp.status = 200
    /\ resp.json
    /\ "error" \notin DOMAIN resp.body
    /\ "signed" \in DOMAIN resp.body
    /\ Len(resp.body.signed) >= 1

\* the error the claim names for a response that is no full success
ExpectedError(resp) ==
    IF resp.status \in {NoStatus, 503} THEN "SignerUnavailableError"
    ELSE IF resp.status = 401 THEN "AuthenticationError"
    ELSE IF resp.status = 403 THEN "SigningRejectedError"
    ELSE IF resp.status = 400 /\ NamesNotFound(ErrorText(resp))
    THEN "KeyNotFoundError"
    ELSE "SignerError"

\* C27: a request that was sent ends with the error of the taxonomy that
\* its response stands for (no connection or 503: SignerUnavailableError,
\* 401: AuthenticationError, 403: SigningRejectedError, 400 naming "not
\* found": KeyNotFoundError, any other status but 200, an error field or an
\* empty signed list: SignerError), and a signed list is returned only for
\* HTTP 200 without error field and with at least one entry, in which case
\* it is the list of the response, base64 for hex.  (A full success whose
\* entries are no hex digits is no case of the claim.)
C27_ErrorTaxonomy ==
    SignSent =>
        LET resp == ret.arg.resp IN
        /\ ret.res \in {"ok", "raise"}
        /\ ~FullSuccess(resp) =>
                ret.res = "raise" /\ ret.what = ExpectedError(resp)
        /\ ret.res = "ok" =>
                /\ FullSuccess(resp)
                /\ Len(ret.arg.result) = Len(resp.body.signed)
                /\ \A k \in DOMAIN ret.arg.result :
                      hex(b64decode(ret.arg.result[k])) = resp.body.signed[k]
        /\ ( FullSuccess(resp) /\ \A k \in DOMAIN resp.body.signed :
                                     ~fromhex_raises(resp.body.signed[k]) ) =>
                ret.res = "ok"
        /\ ret.res = "raise" =>
                \/ ret.what \in Taxonomy
                \/ FullSuccess(resp)

\* a 400 response whose error names the key as not found, in capitals, has
\* been raised as KeyNotFoundError
C27_Witness ==
    /\ SignSent
    /\ ret.arg.resp.status = 400
    /\ ret.arg.resp.json
    /\ ErrorText(ret.arg.resp) = <<"Key", "Not", "Found">>
    /\ ret.res = "raise"
    /\ ret.what = "KeyNotFoundError"

-----------------------------------------------------------------------------
(* The SSH tunnel of the signing client (_SSHTunnel, signer.py).  The      *)
(* tunnel object is shared by the thread that calls stop(), the accept     *)
(* thread and two copy threads per forwarded connection; the threads take  *)
(* their steps in any order.  `tunnel` holds the object's fields, the      *)
(* position of every thread and what the sockets' far ends have done.      *)

\* the connections the local port receives in one run
MaxConns == 2

\* a connection the accept loop has taken: the accepted socket, the SSH
\* channel (none before open_channel), what the local client (peer) and the
\* remote signer (remote) have done to their ends, and the two copy threads
\* t1 = _forward(client_sock, channel), t2 = _forward(channel, client_sock)
Accepted == [client_sock |-> "open", channel |-> "none", peer |-> "open", remote |-> "open", t1 |-> "none", t2 |-> "none"]

\* _SSHTunnel.start has returned: the transport is connected, the local
\* socket listens with a timeout of one second, _running is True and the
\* accept thread is about to test the loop condition
start ==
    [ running |-> TRUE,
      server_socket |-> "socket",   \* self._server_socket, or "None"
      listening |-> TRUE,           \* the listening socket is open
      transport |-> "transport",    \* self._transport, or "None"
      connected |-> TRUE,           \* the transport is open
      accept |-> "while",           \* the accept thread's position
      stopping |-> "not called",    \* the position of the caller of stop()
      backlog |-> 0,                \* connections waiting to be accepted
      timeouts |-> 0,               \* accept timeouts since stop() returned
      conns |-> << >> ]

\* stop() has returned
StopReturned == tunnel.stopping = "returned"

\* the tunnel moves and nothing else does
TunnelStep(next) ==
    /\ tunnel # NoTunnel
    /\ tunnel' = next
    /\ UNCHANGED <<_key_cache, signed_lists, merged, boxes, sessionVars>>

\* a local client connects to the listening port
client_connect ==
    /\ tunnel # NoTunnel
    /\ tunnel.listening
    /\ tunnel.backlog = 0
    /\ Len(tunnel.conns) < MaxConns
    /\ TunnelStep([tunnel EXCEPT !.backlog = 1])

\* _accept_loop, `while self._running:`
accept_while ==
    /\ tunnel # NoTunnel
    /\ tunnel.accept = "while"
    /\ TunnelStep([tunnel EXCEPT !.accept = IF tunnel.running THEN "accept" ELSE "exited"])

\* the outcomes of socket.accept() on the listening socket: a connection, or
\* the thread waits
accept_call(t) ==
    IF t.backlog > 0
    THEN [t EXCEPT !.backlog = 0, !.conns = Append(t.conns, Accepted), !.accept = "open_channel"]
    ELSE [t EXCEPT !.accept = "blocked"]

\* _accept_loop, `self._server_socket.accept()`: the attribute is read, then
\* accept is called.  None has no accept (AttributeError, which no except
\* clause of the loop names); a closed socket raises OSError (break)
accept_enter ==
    /\ tunnel # NoTunnel
    /\ tunnel.accept = "accept"
    /\ TunnelStep(IF tunnel.server_socket = "None" THEN [tunnel EXCEPT !.accept = "crashed"]
                  ELSE IF ~tunnel.listening THEN [tunnel EXCEPT !.accept = "exited"]
                  ELSE accept_call(tunnel))

\* the accept thread waits inside accept(): a connection arrives
accept_returns ==
    /\ tunnel # NoTunnel
    /\ tunnel.accept = "blocked"
    /\ tunnel.listening
    /\ tunnel.backlog > 0
    /\ TunnelStep(accept_call(tunnel))

\* the accept thread waits inside accept(): socket.timeout after one second
\* (continue)
accept_timeout ==
    /\ tunnel # NoTunnel
    /\ tunnel.accept = "blocked"
    /\ (tunnel.backlog = 0 \/ ~tunnel.listening)
    /\ tunnel.timeouts < 2
    /\ TunnelStep([tunnel EXCEPT !.accept = "while",
                                 !.timeouts = IF StopReturned THEN @ + 1 ELSE @])

\* the accept thread waits inside accept() and the socket is closed under
\* it: the wait may end at once with OSError (break)
accept_closed ==
    /\ tunnel # NoTunnel
    /\ tunnel.accept = "blocked"
    /\ ~tunnel.listening
    /\ TunnelStep([tunnel EXCEPT !.accept = "exited"])

\* the copy threads of the connection just accepted are started
spawn(t) ==
    [t EXCEPT !.conns[Len(t.conns)].channel = "open",
              !.conns[Len(t.conns)].t1 = "recv",
              !.conns[Len(t.conns)].t2 = "recv",
              !.accept = "while"]

\* open_channel raised or returned None: client_sock.close(); continue
refuse(t) ==
    [t EXCEPT !.conns[Len(t.conns)].client_sock = "closed", !.accept = "while"]

\* whether open_channel can succeed: the attribute is the transport (None
\* has no open_channel: AttributeError, caught by `except Exception`) and
\* the transport is open
can_open(t) == t.transport = "transport" /\ t.connected

\* _accept_loop, from open_channel to the start of the two threads
accept_open_channel ==
    /\ tunnel # NoTunnel
    /\ tunnel.accept = "open_channel"
    /\ \E opened \in BOOLEAN :
          /\ opened => can_open(tunnel)
          /\ TunnelStep(IF opened THEN spawn(tunnel) ELSE refuse(tunnel))

\* the ends of a copy thread: t1 reads the accepted socket, whose far end is
\* the local client, t2 reads the channel, whose far end is the remote signer
Src(t) == IF t = "t1" THEN "client_sock" ELSE "channel"
Dst(t) == IF t = "t1" THEN "channel" ELSE "client_sock"
Far(t) == IF t = "t1" THEN "peer" ELSE "remote"
Tasks == {"t1", "t2"}
Other(t) == IF t = "t1" THEN "t2" ELSE "t1"

\* _forward, `data = src.recv(65536)` is called: a closed src raises, a far
\* end that has closed gives no data (break), otherwise the thread waits
forward_recv(c, t) ==
    /\ tunnel # NoTunnel
    /\ c \in DOMAIN tunnel.conns
    /\ tunnel.conns[c][t] = "recv"
    /\ TunnelStep([tunnel EXCEPT !.conns[c][t] =
          IF tunnel.conns[c][Src(t)] = "closed" \/ tunnel.conns[c][Far(t)] = "closed"
          THEN "finally" ELSE "blocked"])

\* a thread waiting in recv is woken by the far end closing (no data:
\* break), and a thread waiting on the channel by the channel being closed
forward_eof(c, t) ==
    /\ tunnel # NoTunnel
    /\ c \in DOMAIN tunnel.conns
    /\ tunnel.conns[c][t] = "blocked"
    /\ \/ tunnel.conns[c][Far(t)] = "closed"
       \/ t = "t2" /\ tunnel.conns[c].channel = "closed"
    /\ TunnelStep([tunnel EXCEPT !.conns[c][t] = "finally"])

\* a thread waiting in recv on the accepted socket while another thread
\* closes that socket: the wait may end with an error, or go on until
\* the far end sends or closes
forward_interrupted(c) ==
    /\ tunnel # NoTunnel
    /\ c \in DOMAIN tunnel.conns
    /\ tunnel.conns[c].t1 = "blocked"
    /\ tunnel.conns[c].client_sock = "closed"
    /\ tunnel.conns[c].peer = "open"
    /\ TunnelStep([tunnel EXCEPT !.conns[c].t1 = "finally"])

\* _forward, data arrives from the far end: `dst.sendall(data)` raises on a
\* closed dst, otherwise the loop goes round
forward_data(c, t) ==
    /\ tunnel # NoTunnel
    /\ c \in DOMAIN tunnel.conns
    /\ tunnel.conns[c][t] = "blocked"
    /\ tunnel.conns[c][Far(t)] = "open"
    /\ TunnelStep([tunnel EXCEPT !.conns[c][t] =
          IF tunnel.conns[c][Dst(t)] = "closed" THEN "finally" ELSE "recv"])

\* _forward, the finally clause: dst.close(), src.close()
forward_finally(c, t) ==
    /\ tunnel # NoTunnel
    /\ c \in DOMAIN tunnel.conns
    /\ tunnel.conns[c][t] = "finally"
    /\ TunnelStep([tunnel EXCEPT !.conns[c][t] = "done",
                                 !.conns[c].client_sock = "closed",
                                 !.conns[c].channel = "closed"])

\* the far end of a forwarded connection closes: the local client its
\* socket, or the remote signer the channel
far_close(c, t) ==
    /\ tunnel # NoTunnel
    /\ c \in DOMAIN tunnel.conns
    /\ tunnel.conns[c].channel # "none"
    /\ tunnel.conns[c][Far(t)] = "open"
    /\ TunnelStep([tunnel EXCEPT !.conns[c][Far(t)] = "closed"])

\* Transport.close closes the channels of the transport
close_channels(conns) ==
    [c \in DOMAIN conns |->
        IF conns[c].channel = "open" THEN [conns[c] EXCEPT !.channel = "closed"]
        ELSE conns[c]]

\* stop(), statement by statement: _running = False; the server socket is
\* closed and the attribute set to None; the transport is closed and the
\* attribute set to None
stop ==
    /\ tunnel # NoTunnel
    /\ tunnel.stopping # "returned"
    /\ TunnelStep(
         CASE tunnel.stopping = "not called" ->
                [tunnel EXCEPT !.running = FALSE, !.stopping = "socket.close"]
           [] tunnel.stopping = "socket.close" ->
                [tunnel EXCEPT !.listening = FALSE, !.backlog = 0, !.stopping = "socket = None"]
           [] tunnel.stopping = "socket = None" ->
                [tunnel EXCEPT !.server_socket = "None", !.stopping = "transport.close"]
           [] tunnel.stopping = "transport.close" ->
                [tunnel EXCEPT !.connected = FALSE, !.conns = close_channels(@),
                               !.stopping = "transport = None"]
           [] tunnel.stopping = "transport = None" ->
                [tunnel EXCEPT !.transport = "None", !.stopping = "returned"])

\* a step of the accept thread that the thread is bound to take
accept_loop ==
    \/ accept_while
    \/ accept_enter
    \/ accept_returns
    \/ accept_timeout
    \/ accept_open_channel

\* a step of a copy thread that the thread is bound to take
forward(c, t) ==
    \/ forward_recv(c, t)
    \/ forward_eof(c, t)
    \/ forward_finally(c, t)

\* the session is idle and the client's tunnel has been started
InitTunnel ==
    /\ round = 1
    /\ state = swap_SwapState("seller", 0)
    /\ file = state
    /\ index = {}
    /\ pc = "idle"
    /\ seen = {}
    /\ ret = NoRet
    /\ keys = {}
    /\ transfers = {}
    /\ signed_lists = << >>
    /\ merged = Pending
    /\ boxes = {}
    /\ tunnel = start
    /\ _key_cache = {}

NextTunnel ==
    \/ client_connect
    \/ accept_while
    \/ accept_enter
    \/ accept_returns
    \/ accept_timeout
    \/ accept_closed
    \/ accept_open_channel
    \/ \E c \in 1..MaxConns, t \in Tasks : forward_recv(c, t)
    \/ \E c \in 1..MaxConns, t \in Tasks : forward_eof(c, t)
    \/ \E c \in 1..MaxConns : forward_interrupted(c)
    \/ \E c \in 1..MaxConns, t \in Tasks : forward_data(c, t)
    \/ \E c \in 1..MaxConns, t \in Tasks : forward_finally(c, t)
    \/ \E c \in 1..MaxConns, t \in Tasks : far_close(c, t)
    \/ stop

\* the threads run: the accept thread and every copy thread take the
\* steps they are bound to take, and a stop() that was called goes on to
\* return.  Nothing obliges the far ends to send or to close, a caller to
\* call stop(), or a wait on a socket closed by another thread to end.
SpecTunnel ==
    /\ InitTunnel
    /\ [][NextTunnel]_vars
    /\ WF_vars(accept_loop)
    /\ WF_vars(tunnel # NoTunnel /\ tunnel.stopping # "not called" /\ stop)
    /\ \A c \in 1..MaxConns, t \in Tasks : WF_vars(forward(c, t))

\* the accept thread has ended with an exception that nothing caught
AcceptCrashed == tunnel.accept = "crashed"

\* C28: tearing the tunnel down is clean wherever the accept thread is: the
\* thread never ends with an unhandled exception, once stop() has returned
\* no further connection is accepted and at most one accept timeout passes,
\* and the accept loop then terminates.
C28_TeardownClean ==
    /\ [](~AcceptCrashed)
    /\ [](tunnel.timeouts <= 1)
    /\ [][StopReturned => Len(tunnel'.conns) = Len(tunnel.conns)]_vars
    /\ (StopReturned ~> tunnel.accept = "exited")

\* connection c has been accepted and the accept thread is past it
Past(c) ==
    /\ c \in DOMAIN tunnel.conns
    /\ c = Len(tunnel.conns) => tunnel.accept # "open_channel"

\* connection c is served by its two copy threads, or by none when the
\* channel was not opened, in which case the accepted socket is closed
Served(c) ==
    LET conn == tunnel.conns[c] IN
    IF conn.channel = "none"
    THEN conn.t1 = "none" /\ conn.t2 = "none" /\ (Past(c) => conn.client_sock = "closed")
    ELSE conn.t1 # "none" /\ conn.t2 # "none"

\* a copy thread of connection c has ended
Finished(c, t) == c \in DOMAIN tunnel.conns /\ tunnel.conns[c][t] = "done"

\* the accept thread gives up the connection it has just accepted
Refuses ==
    /\ tunnel.accept = "open_channel"
    /\ tunnel'.accept # "open_channel"
    /\ tunnel'.conns[Len(tunnel.conns)].channel = "none"

\* C29: every accepted connection is served by exactly two copy threads;
\* a thread that has ended has closed both ends; once one thread of a
\* connection has ended the other one ends too; and when the channel
\* cannot be opened the accepted socket is closed and the accept loop goes
\* on.
C29_CopyTasksCooperate ==
    /\ [](\A c \in DOMAIN tunnel.conns :
            /\ Served(c)
            /\ (Finished(c, "t1") \/ Finished(c, "t2")) =>
                  tunnel.conns[c].client_sock = "closed" /\ tunnel.conns[c].channel = "closed")
    /\ [][Refuses => tunnel'.accept = "while"]_vars
    /\ \A c \in 1..MaxConns, t \in Tasks :
          Finished(c, t) ~> Finished(c, Other(t))

\* the part of C29 that does not depend on a waiting thread being woken:
\* two threads per connection, both ends closed by a thread that ends, the
\* accepted socket closed when no channel opens, and the thread that reads
\* the channel ends once the other thread has
CopyTasksSafe ==
    /\ [](\A c \in DOMAIN tunnel.conns :
            /\ Served(c)
            /\ (Finished(c, "t1") \/ Finished(c, "t2")) =>
                  tunnel.conns[c].client_sock = "closed" /\ tunnel.conns[c].channel = "closed")
    /\ [][Refuses => tunnel'.accept = "while"]_vars
    /\ \A c \in 1..MaxConns : Finished(c, "t1") ~> Finished(c, "t2")

\* the states of the tunnel are well formed
TunnelTypeOK ==
    /\ tunnel.accept \in {"while", "accept", "blocked", "open_channel", "exited", "crashed"}
    /\ Len(tunnel.conns) <= MaxConns
    /\ tunnel.backlog \in 0..1

-----------------------------------------------------------------------------
(* The operations that sign and submit, as the orchestrator runs them.     *)
(* A tool that meets a failing signer or node lets the exception leave it  *)
(* (its try statements have a finally clause only) and dispatch_tool       *)
(* passes it on; the tool loop of run (orchestrator.py) calls              *)
(* dispatch_tool inside try/except Exception and hands the driver a tool   *)
(* result either way, then saves the session.                              *)

\* the tool loop would let the exception of a tool leave run
tool_result_uncaught(r) ==
    IF r.res = "raise" THEN [escaped |-> r.what]
    ELSE [content |-> [result |-> r.what], is_error |-> FALSE]

\* run, the body of `for tu in tool_uses`: the tool result appended for a
\* call that ended as r.  A returned dict is the content (the tools return
\* {"error": ...} for a check that failed); an exception becomes
\* {"error": str(e)} with is_error set
tool_result(r) ==
    IF r.res = "raise" THEN [content |-> [error |-> r.what], is_error |-> TRUE]
    ELSE IF r.res = "error" THEN [content |-> [error |-> r.what], is_error |-> FALSE]
    ELSE [content |-> [result |-> r.what], is_error |-> FALSE]

\* the operations that sign and submit
SubmittingOps ==
    {"send_note", "create_hashlock", "fund_hashlock", "claim_hashlock_asa",
     "build_and_sign_swap", "verify_and_submit_swap"}

NextOps ==
    \/ /\ IsHtlcSession
       /\ Cardinality(Notes_sent) < MaxSent
       /\ \E a \in SendNoteArgs :
            tool_send_note(a.sender, a.receiver, a.note_json)
    \/ /\ IsSwapSession
       /\ Cardinality(Notes_sent) < MaxSent
       /\ \E a \in SendNoteArgs :
            swap_send_note(a.sender, a.receiver, a.note_json)
    \/ /\ IsHtlcSession
       /\ state.my_hashlock = ""
       /\ \E a \in LockCreateArgs : tool_create_hashlock(a[1], a[2], a[3], a[4])
    \/ /\ IsHtlcSession
       /\ \E a \in FundArgs : tool_fund_hashlock(a[1], a[2], a[3])
    \/ /\ IsHtlcSession
       /\ \E a \in LockClaimArgs : tool_claim_hashlock_asa(a[1], a[2], a[3], a[4])
    \/ /\ IsSwapSession
       /\ \E a \in BuildArgs :
            tool_build_and_sign_swap(a[1], a[2], a[3], a[4], a[5], a[6], a[7])
    \/ IsSwapSession /\ tool_verify_and_submit_swap
    \/ IsSwapSession /\ PeerWritesBox
    \/ next_turn

SpecOps == (InitLock \/ InitTrade) /\ [][NextOps]_vars

\* a submitting operation has ended with an exception of the signer or of
\* the node
OpRaised == ret.op \in SubmittingOps /\ ret.res = "raise"

\* the session file holds the session
Saved == file = IF IsHtlcSession THEN save_state(state) ELSE state

-----------------------------------------------------------------------------
(* Claiming (SpecClaim): an HTLC session of either role, fresh or holding  *)
(* the buyer's offer, with its message channel, its own lock, the          *)
(* discovery of the preimage and the two claim tools.                      *)

\* the error tool_claim_hashlock returns before it builds anything, or ""
claim_hashlock_error(st, hashlock_address, recipient, preimage_hex) ==
    IF st.peer_hashlock = "" THEN "no peer_hashlock"
    ELSE IF hashlock_address # st.peer_hashlock THEN "hashlock_address"
    ELSE IF recipient # st.my_address THEN "recipient"
    ELSE IF ~PreimageLen64(preimage_hex) THEN "preimage length"
    ELSE IF ~PreimageIsHex(preimage_hex) THEN "preimage hex"
    ELSE IF st.hash # "" /\ sha256(preimage_hex) # st.hash THEN "preimage hash"
    ELSE ""

\* One orchestrator step: dispatch_tool("claim_hashlock", ...), then
\* save_state: a payment of 0 from the lock that closes it out to the
\* recipient, signed with the preimage as the lock program's argument
tool_claim_hashlock(hashlock_address, recipient, preimage_hex) ==
    /\ pc = "idle"
    /\ ret = NoRet
    /\ LET e == claim_hashlock_error(state, hashlock_address, recipient,
                                     preimage_hex) IN
       IF e # "" THEN
            /\ state' = state
            /\ transfers' = transfers
            /\ ret' = Ret("claim_hashlock", "error", e, 0)
       ELSE \E outcome \in SubmitOutcomes :
            /\ outcome # "rejected" =>
                 LedgerAcceptsClaim(BuyerLock, recipient, preimage_hex)
            /\ Submit("claim_hashlock",
                      Close(hashlock_address, recipient, 0, preimage_hex,
                            round), outcome)
            /\ state' = IF outcome = "ok"
                        THEN [state EXCEPT !.claim_txid = "claim"]
                        ELSE state
    /\ file' = save_state(state')
    /\ UNCHANGED <<round, index, pc, seen, keys, asmVars>>

\* what a driver passes to claim_hashlock, as <<hashlock_address, recipient,
\* preimage_hex>>, and to claim_hashlock_asa with the asset id added
ClaimArgs ==
    { <<PeerLock, Me, p>> : p \in Preimages \cup {"short", "nothex"} }
    \cup { <<l, Me, "P1">> : l \in OwnLocks }
    \cup { <<PeerLock, Peer, "P1">> }

ClaimAsaArgs ==
    { <<a[1], a[2], a[3], ASA_A>> : a \in ClaimArgs }
    \cup { <<PeerLock, Me, "P1", ASA_B>> }

NextClaim ==
    \/ ConfirmNote
    \/ htlc_wait_begin
    \/ htlc_wait_poll
    \/ htlc_wait_timeout
    \/ /\ state.my_hashlock = ""
       /\ \E a \in LockCreateArgs : tool_create_hashlock(a[1], a[2], a[3], a[4])
    \/ \E a \in LockFundArgs : tool_fund_hashlock_asa(a[1], a[2], a[3], a[4])
    \/ BuyerClaim
    \/ tool_wait_for_preimage
    \/ \E a \in ClaimArgs : tool_claim_hashlock(a[1], a[2], a[3])
    \/ \E a \in ClaimAsaArgs : tool_claim_hashlock_asa(a[1], a[2], a[3], a[4])
    \/ next_turn

SpecClaim == (Init \/ InitLock) /\ [][NextClaim]_vars

\* the step is a call of a claim tool that went on to sign and submit
ClaimSigned == ret'.op \in {"claim_hashlock", "claim_hashlock_asa"} /\ ret'.res # "error"

\* the arguments name the peer's lock, the party's own address and a
\* preimage of 32 bytes
ClaimWellAddressed(hashlock_address, recipient, preimage_hex) ==
    /\ state.peer_hashlock # ""
    /\ hashlock_address = state.peer_hashlock
    /\ recipient = state.my_address
    /\ PreimageLen64(preimage_hex)
    /\ PreimageIsHex(preimage_hex)

\* C31: claim_hashlock and claim_hashlock_asa sign and submit only a claim
\* on the recorded peer lock, to the party's own address, with a preimage
\* of 32 bytes whose SHA-256 is the hash the session holds.
C31_ClaimOnlyVerified ==
    [][ /\ \A a \in ClaimArgs :
             (ClaimSigned /\ tool_claim_hashlock(a[1], a[2], a[3])) =>
                 /\ ClaimWellAddressed(a[1], a[2], a[3])
                 /\ sha256(a[3]) = state.hash
        /\ \A a \in ClaimAsaArgs :
             (ClaimSigned /\ tool_claim_hashlock_asa(a[1], a[2], a[3], a[4])) =>
                 /\ ClaimWellAddressed(a[1], a[2], a[3])
                 /\ sha256(a[3]) = state.hash ]_vars

\* what holds of every claim that is signed: the lock, the recipient and
\* the length are checked, and the hash whenever the session holds one
ClaimCheckedAgainstHeldHash ==
    [][ /\ \A a \in ClaimArgs :
             (ClaimSigned /\ tool_claim_hashlock(a[1], a[2], a[3])) =>
                 /\ ClaimWellAddressed(a[1], a[2], a[3])
                 /\ state.hash # "" => sha256(a[3]) = state.hash
        /\ \A a \in ClaimAsaArgs :
             (ClaimSigned /\ tool_claim_hashlock_asa(a[1], a[2], a[3], a[4])) =>
                 /\ ClaimWellAddressed(a[1], a[2], a[3])
                 /\ state.hash # "" => sha256(a[3]) = state.hash ]_vars

-----------------------------------------------------------------------------
(* The lock a party creates (SpecFund).                                    *)

\* the arguments pass the checks the claim names
CreateArgsAccepted(hash_hex, recipient, refund_address, timeout_round) ==
    /\ ValidCreateArgs(hash_hex, recipient, refund_address)
    /\ timeout_round > 0

\* C32: create_hashlock has a key generated only for a lock that names the
\* peer as claim-recipient and the party itself as refund-recipient, with a
\* hash of 64 hex characters and a timeout round above 0, and records that
\* lock; a call with any other argument returns an error, generates no key
\* and leaves my_hashlock, my_timeout and hash as they were.
C32_LockNamesPeer ==
    [][ ret'.op = "create_hashlock" =>
          \A a \in CreateArgs :
             tool_create_hashlock(a[1], a[2], a[3], a[4]) =>
                /\ ret'.res = "ok" =>
                     /\ CreateArgsAccepted(a[1], a[2], a[3], a[4])
                     /\ ret'.arg = hashlock_parameters(a[1], state.peer_address,
                                                       state.my_address, a[4])
                     /\ LockFields(state') = <<ret'.what, a[4], a[1]>>
                     /\ keys' = keys \cup {ret'.what}
                /\ ~CreateArgsAccepted(a[1], a[2], a[3], a[4]) =>
                     /\ ret'.res = "error"
                     /\ keys' = keys
                     /\ LockFields(state') = LockFields(state)
                /\ ret'.res # "ok" =>
                     /\ keys' = keys
                     /\ LockFields(state') = LockFields(state)
      ]_vars

\* a lock has just been created: it names the peer as claim-recipient and
\* the party as refund-recipient and is the lock the session records
C32_Witness ==
    /\ ret.op = "create_hashlock"
    /\ ret.res = "ok"
    /\ ret.arg.recipient = state.peer_address
    /\ ret.arg.refund_address = state.my_address
    /\ ret.arg.hash = state.hash
    /\ state.my_hashlock = ret.what
    /\ state.my_hashlock \in keys

-----------------------------------------------------------------------------
(* sign_transactions, the concatenating form (SpecSign).                   *)

\* the bytes of the entries of a response's signed list, joined in order
RECURSIVE JoinFromHex(_)
JoinFromHex(signed_hexes) ==
    IF Len(signed_hexes) = 0 THEN << >>
    ELSE fromhex(Head(signed_hexes)) \o JoinFromHex(Tail(signed_hexes))

\* a call of sign_transactions has sent its request
ConcatSent == ret.op = "sign_transactions" /\ ret.arg.resp # NoResponse

\* the response is a signed list with an empty entry
HasUnsignedSlot(resp) ==
    /\ FullSuccess(resp)
    /\ \E k \in DOMAIN resp.body.signed : resp.body.signed[k] = << >>

-----------------------------------------------------------------------------
(* The request body of sign and plan (SpecSign).                           *)

\* the auth addresses of a call, the default filled in
AuthOf(c) ==
    IF c.auth = NoList
    THEN [ i \in DOMAIN c.txns |->
             IF c.txns[i] = NoTxn THEN None ELSE c.txns[i].sender ]
    ELSE c.auth

\* the call has an argument the claim names as rejected
BadArgument(c) ==
    LET N == Len(c.txns) IN
    \/ \E idx \in DOMAIN c.pass : idx < 1 \/ idx > N
    \/ \E idx \in DOMAIN c.hint : idx < 1 \/ idx > N
    \/ \E idx \in DOMAIN c.hint : c.hint[idx] < 0
    \/ \E idx \in DOMAIN c.pass : idx \in 1..N /\ b64decode_raises(c.pass[idx])
    \/ \E i \in 1..N : i \notin DOMAIN c.pass /\ c.txns[i] = NoTxn

\* entry k of the body is exactly the variant the call asks for at slot k
VariantOf(c, entry, k) ==
    IF k \in DOMAIN c.pass
    THEN /\ DOMAIN entry = {"signed_txn_hex"}
         /\ fromhex(entry.signed_txn_hex) = b64decode(c.pass[k])
    ELSE IF AuthOf(c)[k] = None
    THEN /\ DOMAIN entry = {"txn_bytes_hex"} \cup
                           (IF k \in DOMAIN c.hint THEN {"lsig_size"} ELSE {})
         /\ entry.txn_bytes_hex.TX = c.txns[k]
         /\ k \in DOMAIN c.hint => entry.lsig_size = c.hint[k]
    ELSE /\ DOMAIN entry = {"txn_bytes_hex", "auth_address", "txn_sender"}
         /\ entry.txn_bytes_hex.TX = c.txns[k]
         /\ entry.auth_address = AuthOf(c)[k]
         /\ entry.txn_sender = c.txns[k].sender

\* the step is call c of one of the two signing methods
SignStep(c) ==
    \/ sign_transactions_list(c.txns, c.auth, c.pass, c.hint)
    \/ sign_transactions(c.txns, c.auth, c.pass, c.hint)

\* C34: the request body has one entry per slot, in slot order, each
\* exactly one variant: Passthrough (the pre-signed bytes only) when the
\* index is in passthrough, else Foreign (the transaction, and the size
\* hint only when one is given for the index) when the auth address is
\* absent, else Sign (transaction, auth address, sender); and a call with a
\* passthrough or size-hint index out of range, a negative size hint, a
\* passthrough that is no base64 or a missing transaction in a Sign or
\* Foreign slot raises before anything is sent.
C34_OneVariantPerSlot ==
    [][ ret'.op \in {"sign_transactions_list", "sign_transactions"} =>
          \A c \in SignCalls :
             SignStep(c) =>
                /\ BadArgument(c) =>
                     /\ ret'.res = "raise"
                     /\ ret'.what = "ValueError"
                     /\ ret'.arg.resp = NoResponse
                /\ ret'.arg.resp # NoResponse =>
                     /\ ~BadArgument(c)
                     /\ Len(ret'.arg.body) = Len(c.txns)
                     /\ \A k \in DOMAIN ret'.arg.body :
                           VariantOf(c, ret'.arg.body[k], k)
      ]_vars

\* a request of a Passthrough slot followed by a Foreign slot with a size
\* hint has been sent
C34_Witness ==
    /\ ret.op = "sign_transactions_list"
    /\ ret.arg.resp # NoResponse
    /\ Len(ret.arg.body) = 2
    /\ DOMAIN ret.arg.body[1] = {"signed_txn_hex"}
    /\ DOMAIN ret.arg.body[2] = {"txn_bytes_hex", "lsig_size"}
    /\ ret.arg.body[2].lsig_size = 3

-----------------------------------------------------------------------------
(* The peer's terms of a session (SpecSwap for the generic swap, Spec for  *)
(* the HTLC).                                                              *)

\* C35: the peer's asset id and amount recorded in a session never change
\* away from the values the session was created with: no step of a generic
\* swap session (a received swap_propose whose terms differ included)
\* changes peer_asa_id or peer_asa_amount.
C35_PeerTermsFixed ==
    [][ /\ state'.peer_asa_id = state.peer_asa_id
        /\ state'.peer_asa_amount = state.peer_asa_amount ]_vars

\* The HTLC half of it: no step of an HTLC session changes the recorded
\* peer terms, and a wait_for_message that returns an error leaves the
\* peer's lock and timeout, the hash and the status as they were.
HtlcPeerTermsFixed ==
    [][ /\ state'.peer_asa_id = state.peer_asa_id
        /\ state'.peer_asa_amount = state.peer_asa_amount
        /\ (ret'.op = "wait_for_message" /\ ret'.res = "error") =>
             /\ state'.peer_hashlock = state.peer_hashlock
             /\ state'.peer_timeout = state.peer_timeout
             /\ state'.hash = state.hash
             /\ state'.status = state.status ]_vars

-----------------------------------------------------------------------------
(* Delivery of notes under the watermark (SpecDeliver): an HTLC session    *)
(* whose driver calls wait_for_message again and again.  Every call polls  *)
(* the index at least once before its deadline, so a call made while the   *)
(* query covers an unread note returns one: the polling step is strongly   *)
(* fair; the call, its deadline and the driver's next turn weakly.         *)

NextDeliver ==
    \/ Tick
    \/ ConfirmNote
    \/ htlc_wait_begin
    \/ htlc_wait_poll
    \/ htlc_wait_timeout
    \/ next_turn

SpecDeliver ==
    /\ Init
    /\ [][NextDeliver]_vars
    /\ WF_vars(htlc_wait_begin)
    /\ SF_vars(htlc_wait_poll)
    /\ WF_vars(htlc_wait_timeout)
    /\ WF_vars(next_turn)

\* the note transactions the index can hold
NoteTxns == { [id |-> i, round |-> r] : i \in 1..MaxNotes, r \in 1..MaxRound }

\* wait_for_message has taken the note (it is dedup-marked when taken)
Taken(t) == t.id \in Consumed

\* C36: no message is lost by the watermark: every note confirmed at a
\* round at or above the session's initial watermark (round 1, so every
\* note of the index) and not yet consumed is taken by some later
\* wait_for_message when polling is repeated, in whatever order the index
\* returns the transactions of a response.
C36_NoMessageLost ==
    \A t \in NoteTxns : (t \in index /\ ~Taken(t)) ~> Taken(t)

\* The safety half of it: an unconsumed note is never below the watermark,
\* where no later query covers it.
NeverBelowWatermark ==
    \A t \in index : ~Taken(t) => t \in covered(state.last_seen_round)

-----------------------------------------------------------------------------
(* The secret and the commitment of an HTLC session (SpecSecret): the      *)
(* sessions and tools of SpecClaim, with generate_preimage, and with       *)
(* create_hashlock callable again after a lock was created.                *)

\* One orchestrator step: dispatch_tool("generate_preimage"), then
\* save_state.  os.urandom(32) is any preimage.
tool_generate_preimage ==
    /\ pc = "idle"
    /\ ret = NoRet
    /\ \E preimage \in Preimages :
         /\ state' = [state EXCEPT !.preimage = preimage,
                                   !.hash = sha256(preimage)]
         /\ ret' = Ret("generate_preimage", "ok", preimage, 0)
    /\ file' = save_state(state')
    /\ UNCHANGED <<round, index, pc, seen, keys, transfers, asmVars>>

NextSecret ==
    \/ NextClaim
    \/ tool_generate_preimage
    \/ /\ state.my_hashlock # ""
       /\ \E a \in LockCreateArgs : tool_create_hashlock(a[1], a[2], a[3], a[4])

SpecSecret == (Init \/ InitLock) /\ [][NextSecret]_vars

\* C37: in every reachable state of an HTLC session in which both preimage
\* and hash are non-empty, SHA-256(preimage) equals hash; in particular a
\* session at status preimage_discovered holds a preimage of its hash.
C37_PreimageMatchesHash ==
    (state.preimage # "" /\ state.hash # "") =>
        sha256(state.preimage) = state.hash

\* the seller's session holds the buyer's offer
OfferReceived ==
    /\ state.role = "seller"
    /\ state.hash # ""
    /\ state.peer_hashlock # ""

\* C38: both locks of a swap commit to the same hash: in a seller session
\* that has received the buyer's htlc_offer every lock the session creates
\* carries the hash of that offer, and no create_hashlock and no received
\* note changes the hash the session records.
C38_SameHash ==
    [][ (OfferReceived /\ ret'.op \in {"create_hashlock", "wait_for_message"}) =>
          /\ state'.hash = state.hash
          /\ (ret'.op = "create_hashlock" /\ ret'.res = "ok") =>
                ret'.arg.hash = state.hash ]_vars

-----------------------------------------------------------------------------
(* What the buyer signs in verify_and_submit_swap (SpecTrade).             *)

\* leg 0 moves the agreed amount of the agreed asset from the buyer to the
\* seller and nothing else
Leg0Exact(st, finalized_txns) ==
    /\ Len(finalized_txns) >= 1
    /\ finalized_txns[1] = leg_txn(st.my_address, st.peer_address,
                                   st.my_asa_id, st.my_asa_amount)

\* the group is the two legs followed by padding of the signer only
TwoLegsAndPadding(finalized_txns) ==
    /\ Len(finalized_txns) >= 2
    /\ \A i \in 3..Len(finalized_txns) : finalized_txns[i] = DummyTxn

\* the call had the buyer's signer sign leg 0
Leg0Signed ==
    /\ signed_lists' # << >>
    /\ ret'.what \notin {"signer", "node", "box", "document", "leg",
                         "proposal hash", "verification"}

\* C39: the buyer never signs away more than the agreed offer:
\* verify_and_submit_swap signs leg 0 only if that leg moves exactly the
\* agreed amount of the agreed asset from the buyer to the seller with no
\* close-remainder-to, close-assets-to or rekey-to set, and only if the
\* planned group is the two agreed legs plus padding of the signer.
C39_SignsOnlyTheOffer ==
    [][ (tool_verify_and_submit_swap /\ Leg0Signed) =>
          /\ BoxReadable
          /\ Leg0Exact(state, BoxDocument.planned_txns_hex)
          /\ TwoLegsAndPadding(BoxDocument.planned_txns_hex)
      ]_vars

-----------------------------------------------------------------------------
(* The key cache of SignerClient (SpecKeys): one client, the signer's key  *)
(* store (keys), and the signer's administrator or another client, who     *)
(* adds and removes keys on the signer without this client taking part.    *)

KeyAddresses == {"K1", "K2", "K3"}

\* the KeyInfo the client builds from an entry of the response of /keys
KeyInfo(address) == [address |-> address, key_type |-> "ed25519"]

\* data.get("keys", []) of a 200 response of /keys
reported(signer_keys) == { KeyInfo(a) : a \in signer_keys }

\* `self._key_cache[key_info.address] = key_info` for every key of the
\* response: entries of other addresses stay
fetched_into(cache, response) ==
    { k \in cache : k.address \notin { r.address : r \in response } }
    \cup response

\* the exceptions of the request of list_keys: RequestException, 401 and
\* any other status but 200
ListFailures == {"SignerUnavailableError", "AuthenticationError", "SignerError"}

\* the exceptions of generate_key and delete_key
AdminFailures ==
    {"SignerUnavailableError", "AuthenticationError", "SignerError",
     "KeyDeletionError"}

\* a call of the client changes nothing but the cache, the key store and
\* its result
KeysStep ==
    /\ pc = "idle"
    /\ ret = NoRet
    /\ UNCHANGED <<state, file, round, index, pc, seen, transfers,
                   signed_lists, merged, boxes, tunnel>>

\* SignerClient.list_keys(refresh)
list_keys(refresh) ==
    /\ KeysStep
    /\ keys' = keys
    /\ IF ~refresh /\ _key_cache # {} THEN
            /\ ret' = Ret("list_keys", "ok", "cached", _key_cache)
            /\ _key_cache' = _key_cache
       ELSE \/ \E e \in ListFailures :
                 /\ ret' = Ret("list_keys", "raise", e, {})
                 /\ _key_cache' = _key_cache
            \/ /\ _key_cache' = fetched_into(_key_cache, reported(keys))
               /\ ret' = Ret("list_keys", "ok", "fetched", reported(keys))

\* self._key_cache.get(address), as the set of what is returned ({} for
\* None)
cache_get(cache, address) == { k \in cache : k.address = address }

\* SignerClient.get_key_info(address)
get_key_info(address) ==
    /\ KeysStep
    /\ keys' = keys
    /\ IF address \in { k.address : k \in _key_cache } THEN
            /\ ret' = Ret("get_key_info", "ok", "cached",
                          cache_get(_key_cache, address))
            /\ _key_cache' = _key_cache
       ELSE \/ \E e \in ListFailures :
                 /\ ret' = Ret("get_key_info", "raise", e, {})
                 /\ _key_cache' = _key_cache
            \/ /\ _key_cache' = fetched_into(_key_cache, reported(keys))
               /\ ret' = Ret("get_key_info", "ok", "fetched",
                             cache_get(_key_cache', address))

\* SignerClient.generate_key(key_type, parameters): the signer refuses, or
\* adds a key and the cache is cleared
generate_key ==
    /\ KeysStep
    /\ \/ \E e \in AdminFailures \ {"KeyDeletionError"} :
            /\ ret' = Ret("generate_key", "raise", e, {})
            /\ UNCHANGED <<keys, _key_cache>>
       \/ \E address \in KeyAddresses \ keys :
            /\ keys' = keys \cup {address}
            /\ _key_cache' = {}
            /\ ret' = Ret("generate_key", "ok", address, {})

\* SignerClient.delete_key(address): 404 when the signer has no such key
delete_key(address) ==
    /\ KeysStep
    /\ \/ \E e \in AdminFailures \ {"KeyDeletionError"} :
            /\ ret' = Ret("delete_key", "raise", e, {})
            /\ UNCHANGED <<keys, _key_cache>>
       \/ /\ address \notin keys
          /\ ret' = Ret("delete_key", "raise", "KeyDeletionError", {})
          /\ UNCHANGED <<keys, _key_cache>>
       \/ /\ address \in keys
          /\ keys' = keys \ {address}
          /\ _key_cache' = {}
          /\ ret' = Ret("delete_key", "ok", address, {})

\* a key is removed from the signer's store by its administrator or by
\* another client
KeyRemovedOnSigner ==
    /\ ret = NoRet
    /\ \E address \in keys : keys' = keys \ {address}
    /\ UNCHANGED <<state, file, round, index, pc, seen, ret, transfers, asmVars>>

\* a key is added to the signer's store likewise
KeyAddedOnSigner ==
    /\ ret = NoRet
    /\ \E address \in KeyAddresses \ keys : keys' = keys \cup {address}
    /\ UNCHANGED <<state, file, round, index, pc, seen, ret, transfers, asmVars>>

\* the caller takes the result
key_result_taken ==
    /\ ret # NoRet
    /\ ret' = NoRet
    /\ UNCHANGED <<state, file, round, index, pc, seen, keys, transfers, asmVars>>

\* a new client (empty cache) of a signer holding some keys
InitKeys ==
    /\ round = 1
    /\ state = SwapState("buyer", round)
    /\ file = save_state(state)
    /\ index = {}
    /\ pc = "idle"
    /\ seen = {}
    /\ ret = NoRet
    /\ keys \in SUBSET KeyAddresses
    /\ transfers = {}
    /\ AsmIdle

NextKeys ==
    \/ \E refresh \in BOOLEAN : list_keys(refresh)
    \/ \E address \in KeyAddresses : get_key_info(address)
    \/ generate_key
    \/ \E address \in KeyAddresses : delete_key(address)
    \/ KeyRemovedOnSigner
    \/ KeyAddedOnSigner
    \/ key_result_taken

SpecKeys == InitKeys /\ [][NextKeys]_vars

\* C40: key cache coherence: after list_keys(refresh=True), or a
\* get_key_info that triggers a refresh, returns, the cache holds exactly
\* the keys the signer reported in that response (a key removed on the
\* signer is in the cache no longer); after a successful generate_key or
\* delete_key the cache is empty, and a failed one leaves the cache
\* unchanged.
C40_CacheCoherent ==
    [][ /\ (ret'.op \in {"list_keys", "get_key_info"} /\ ret'.what = "fetched") =>
             _key_cache' = reported(keys)
        /\ (ret'.op \in {"generate_key", "delete_key"} /\ ret'.res = "ok") =>
             _key_cache' = {}
        /\ (ret'.op \in {"generate_key", "delete_key"} /\ ret'.res = "raise") =>
             _key_cache' = _key_cache
      ]_vars

\* The part of it that holds: generate_key and delete_key clear the cache
\* when they succeed and leave it alone when they fail, a refresh puts
\* every reported key into the cache, and the next list_keys after a
\* cleared cache fetches from the signer.
CacheInvalidated ==
    [][ /\ (ret'.op \in {"list_keys", "get_key_info"} /\ ret'.what = "fetched") =>
             reported(keys) \subseteq _key_cache'
        /\ (ret'.op \in {"generate_key", "delete_key"} /\ ret'.res = "ok") =>
             _key_cache' = {}
        /\ (ret'.op \in {"generate_key", "delete_key"} /\ ret'.res = "raise") =>
             _key_cache' = _key_cache
        /\ (ret'.op = "list_keys" /\ ret'.res = "ok" /\ _key_cache = {}) =>
             ret'.what = "fetched"
      ]_vars

====
